---- MODULE Spec2Model ----
(***************************************************************************)
(* OgmaNeo2: the actor-critic decision layer (Actor, PAL replay variant)   *)
(* and the sparse coding engine (SparseCoder), as state machines.          *)
(*                                                                         *)
(* Numbers.  A float is modelled as an integer count of 1/Scale units      *)
(* (fixed point); a product with a hyperparameter num/den and a division   *)
(* by a count round down.  Buffers (IntBuffer, FloatBuffer) are functions  *)
(* over 0..n-1, n being the allocated length.                              *)
(***************************************************************************)
EXTENDS Integers, Sequences, FiniteSets, TLC

(***************************************************************************)
(* Bounds of the model.                                                    *)
(***************************************************************************)
\* Largest historyCapacity an Actor is constructed with.
MaxCapacity == 3
\* Number of calls of Actor::step in a run.
MaxSteps == 4
\* Number of calls of SparseCoder::activate and SparseCoder::learn in a run.
MaxCalls == 4
\* Number of calls of the Monte-Carlo Actor's step in a run.
MaxMcSteps == 3
\* Largest number of calls after which a run saves its engine to a stream.
MaxSaveAt == 3

\* The number of replay updates applied to the one-column Actor.
MaxLoneUpdates == 4
\* Largest extent (columns along x) of the grids whose geometry is probed.
MaxExtent == 5
\* Largest receptive-field radius of the geometries probed.
MaxRadius == 2

(***************************************************************************)
(* Numeric conventions.                                                    *)
(***************************************************************************)
\* 1.0f in fixed-point units.
Scale == 1000
\* The running-max start value -999999.0f of the kernels.
MinActivation == -999999 * Scale

Max2(a, b) == IF a >= b THEN a ELSE b
Min2(a, b) == IF a <= b THEN a ELSE b

\* r * x for a hyperparameter r = <<num, den>>.
Mul(r, x) == (r[1] * x) \div r[2]

\* The allocated length of a buffer.
Size(buf) == Cardinality(DOMAIN buf)

\* IntBuffer(n, 0): a buffer of n zeroes.
ZeroBuffer(n) == [i \in 0..(n - 1) |-> 0]

(***************************************************************************)
(* Grid addressing and projection (Helpers).                               *)
(***************************************************************************)
\* address2C(pos, dims): flat index of a column.
address2C(pos, dims) == pos.y * dims.x + pos.x

\* address3C(pos, dims): flat index of a unit; the codes of one column are
\* adjacent, column i starting at i * dims.z.
address3C(pos, dims) == address2C(pos, dims) * dims.z + pos.z

\* address2(pos, width) of the dense engines.
address2(pos, width) == pos.y * width + pos.x

\* floor(p * ratio + ratio * 0.5) for ratio = num / den.
projectAxisNoHalf(p, num, den) == (p * num) \div den

projectAxis(p, num, den) == (2 * p * num + num) \div (2 * den)

\* project(pos, ratio) with ratio = toSize / fromSize on each axis.
project(pos, fromSize, toSize) ==
    [x |-> projectAxis(pos.x, toSize.x, fromSize.x),
     y |-> projectAxis(pos.y, toSize.y, fromSize.y)]

\* The columns of a grid, in the kernels' dispatch order (x outer, y inner).
ColumnSeq(size) ==
    [k \in 1..(size.x * size.y) |->
        [x |-> (k - 1) \div size.y, y |-> (k - 1) % size.y]]

Columns(size) == {[x |-> cx, y |-> cy] : cx \in 0..(size.x - 1), cy \in 0..(size.y - 1)}

(***************************************************************************)
(* Actor: construction parameters and hyperparameters.                     *)
(***************************************************************************)
\* _hiddenSize of the Actor: 2 x 1 columns of 2 action codes.
hiddenSize == [x |-> 2, y |-> 1, z |-> 2]

\* _visibleLayerDescs of the Actor: layer 1 has one visible column per hidden
\* column (radius 0), layer 2 a single column seen by both (radius 1, clamped).
visibleLayerDescs ==
    << [size |-> [x |-> 2, y |-> 1, z |-> 2], radius |-> 0],
       [size |-> [x |-> 1, y |-> 1, z |-> 2], radius |-> 1] >>

\* _alpha, _gamma, _gap as <<num, den>>, and _historyIters.
alpha == <<1, 2>>
gamma == <<9, 10>>
gap == <<1, 2>>
historyIters == 2

Layers == 1..Len(visibleLayerDescs)
numHiddenColumns == hiddenSize.x * hiddenSize.y
numHidden == numHiddenColumns * hiddenSize.z
numVisibleColumns(vli) == visibleLayerDescs[vli].size.x * visibleLayerDescs[vli].size.y
HiddenCodes == 0..(hiddenSize.z - 1)

(***************************************************************************)
(* The compressed weight store of the Actor (SparseMatrix, local           *)
(* receptive fields).                                                      *)
(***************************************************************************)
\* The visible columns (flat indices) of layer vli inside the receptive field
\* of hidden column pos: [center - radius, center + radius] clamped to the grid.
FieldColumns(vli, pos) ==
    LET vld == visibleLayerDescs[vli]
        center == project(pos, hiddenSize, vld.size)
        lx == Max2(0, center.x - vld.radius)
        ly == Max2(0, center.y - vld.radius)
        ux == Min2(vld.size.x - 1, center.x + vld.radius)
        uy == Min2(vld.size.y - 1, center.y + vld.radius)
    IN  {address2C([x |-> vx, y |-> vy], vld.size) : vx \in lx..ux, vy \in ly..uy}

\* The hidden column of a row (a hidden unit) of the matrix.
ColumnOfRow(row) == row \div hiddenSize.z

\* The position of the hidden column with flat index i.
ColumnPos(i) == CHOOSE pos \in Columns(hiddenSize) : address2C(pos, hiddenSize) = i

\* initSMLocalRF: the nonzero entries <<row, visible column, visible code>>.
NonZeros(vli) ==
    {<<row, vi, vc>> \in (0..(numHidden - 1)) \X (0..(numVisibleColumns(vli) - 1))
                          \X (0..(visibleLayerDescs[vli].size.z - 1)) :
        vi \in FieldColumns(vli, ColumnPos(ColumnOfRow(row)))}

\* The receptive field of every row of every layer's matrix.
RowField ==
    [vli \in Layers |-> [row \in 0..(numHidden - 1) |->
        FieldColumns(vli, ColumnPos(ColumnOfRow(row)))]]

\* SparseMatrix::counts(row): the number of nonzero entries of a row.
counts(vli, row) == Cardinality(RowField[vli][row]) * visibleLayerDescs[vli].size.z

RECURSIVE SumOver(_, _)
SumOver(f, S) ==
    IF S = {} THEN 0
    ELSE LET e == CHOOSE e \in S : TRUE IN f[e] + SumOver(f, S \ {e})

\* SparseMatrix::multiplyOHVs: the row's weights against one-hot codes.
multiplyOHVs(W, vli, cs, row) ==
    LET F == RowField[vli][row]
    IN  SumOver([vi \in F |-> W[<<row, vi, cs[vi]>>]], F)

\* SparseMatrix::deltaOHVs: add delta to the row's weights selected by the
\* one-hot codes.
deltaOHVs(W, vli, cs, delta, row) ==
    [e \in DOMAIN W |->
        IF e[1] = row /\ cs[e[2]] = e[3] THEN W[e] + delta ELSE W[e]]

(***************************************************************************)
(* Actor kernels.  A kernel takes the engine's buffers a = [weights,       *)
(* hiddenCs, hiddenCounts] and returns them as the invocation leaves them. *)
(***************************************************************************)
\* The summed one-hot support of action code hc at hidden column pos.
Support(W, cs, pos, hc) ==
    LET hiddenIndex == address3C([x |-> pos.x, y |-> pos.y, z |-> hc], hiddenSize)
        RECURSIVE Acc(_)
        Acc(vli) == IF vli > Len(visibleLayerDescs) THEN 0
                    ELSE multiplyOHVs(W[vli], vli, cs[vli], hiddenIndex) + Acc(vli + 1)
    IN  Acc(1)

\* MaxLoop letting a later code replace an equal maximum.
RECURSIVE MaxLoopLastWins(_, _, _, _)
MaxLoopLastWins(act, hc, maxIndex, maxValue) ==
    IF hc >= hiddenSize.z THEN [index |-> maxIndex, value |-> maxValue]
    ELSE IF act[hc] >= maxValue THEN MaxLoopLastWins(act, hc + 1, hc, act[hc])
         ELSE MaxLoopLastWins(act, hc + 1, maxIndex, maxValue)

\* The running-max loop over the codes of a column: a code replaces the
\* current maximum only when strictly greater.
RECURSIVE MaxLoop(_, _, _, _)
MaxLoop(act, hc, maxIndex, maxValue) ==
    IF hc >= hiddenSize.z THEN [index |-> maxIndex, value |-> maxValue]
    ELSE IF act[hc] > maxValue THEN MaxLoop(act, hc + 1, hc, act[hc])
         ELSE MaxLoop(act, hc + 1, maxIndex, maxValue)

\* forward that also nudges the weights of the winning unit.
forwardNudgingWeights(pos, a, inputCs) ==
    LET hiddenColumnIndex == address2C(pos, hiddenSize)
        act == [hc \in HiddenCodes |-> Support(a.weights, inputCs, pos, hc)]
        maxIndex == MaxLoop(act, 0, 0, MinActivation).index
        hiddenIndex == address3C([x |-> pos.x, y |-> pos.y, z |-> maxIndex], hiddenSize)
    IN  [a EXCEPT !.hiddenCs[hiddenColumnIndex] = maxIndex,
                  !.weights = [vli \in Layers |->
                        deltaOHVs(a.weights[vli], vli, inputCs[vli], 1, hiddenIndex)]]

\* Actor::forward at hidden column pos.
forward(pos, a, inputCs) ==
    LET hiddenColumnIndex == address2C(pos, hiddenSize)
        act == [hc \in HiddenCodes |-> Support(a.weights, inputCs, pos, hc)]
        maxIndex == MaxLoop(act, 0, 0, MinActivation).index
    IN  [a EXCEPT !.hiddenCs[hiddenColumnIndex] = maxIndex]

\* The forward kernel over every hidden column (x outer, y inner).
RECURSIVE ForwardPass(_, _, _)
ForwardPass(k, a, inputCs) ==
    IF k > numHiddenColumns THEN a
    ELSE ForwardPass(k + 1, forward(ColumnSeq(hiddenSize)[k], a, inputCs), inputCs)

\* std::max(1, _hiddenCounts[hiddenColumnIndex]), the divisor of learn.
learnCount(countsBuf, hiddenColumnIndex) == Max2(1, countsBuf[hiddenColumnIndex])

\* learnDelta bootstrapping dQ from the maximum under sPrev's inputs.
learnDeltaBootstrapPrev(pos, a, inputCs, hiddenCsPrev, feedBackCsPrev, inputCsPrev) ==
    LET hiddenColumnIndex == address2C(pos, hiddenSize)
        targetC == hiddenCsPrev[hiddenColumnIndex]
        count == learnCount(a.hiddenCounts, hiddenColumnIndex)
        sum == [hc \in HiddenCodes |-> Support(a.weights, inputCs, pos, hc) \div count]
        sumPrev == [hc \in HiddenCodes |-> Support(a.weights, inputCsPrev, pos, hc) \div count]
        maxActivation == MaxLoop(sum, 0, 0, MinActivation).value
        maxActivationPrev == MaxLoop(sumPrev, 0, 0, MinActivation).value
        nextQActionPrev == sum[targetC]
        qActionPrev == sumPrev[targetC]
        reward == IF targetC = feedBackCsPrev[hiddenColumnIndex] THEN Scale ELSE 0
        dQ == reward + Mul(gamma, maxActivationPrev) - qActionPrev
        dAdv == dQ - Mul(gap, maxActivationPrev - qActionPrev)
        dPAL == Max2(dAdv, dQ - Mul(gap, maxActivation - nextQActionPrev))
    IN  [targetC |-> targetC, reward |-> reward, dQ |-> dQ, dPAL |-> dPAL,
         delta |-> Mul(alpha, dPAL),
         maxActivation |-> maxActivation, maxActivationPrev |-> maxActivationPrev,
         nextQActionPrev |-> nextQActionPrev, qActionPrev |-> qActionPrev]

\* learnDelta adding the advantage-gap terms to the TD error.
learnDeltaAddingGap(pos, a, inputCs, hiddenCsPrev, feedBackCsPrev, inputCsPrev) ==
    LET hiddenColumnIndex == address2C(pos, hiddenSize)
        targetC == hiddenCsPrev[hiddenColumnIndex]
        count == learnCount(a.hiddenCounts, hiddenColumnIndex)
        sum == [hc \in HiddenCodes |-> Support(a.weights, inputCs, pos, hc) \div count]
        sumPrev == [hc \in HiddenCodes |-> Support(a.weights, inputCsPrev, pos, hc) \div count]
        maxActivation == MaxLoop(sum, 0, 0, MinActivation).value
        maxActivationPrev == MaxLoop(sumPrev, 0, 0, MinActivation).value
        nextQActionPrev == sum[targetC]
        qActionPrev == sumPrev[targetC]
        reward == IF targetC = feedBackCsPrev[hiddenColumnIndex] THEN Scale ELSE 0
        dQ == reward + Mul(gamma, maxActivation) - qActionPrev
        dAdv == dQ + Mul(gap, maxActivationPrev - qActionPrev)
        dPAL == Max2(dAdv, dQ + Mul(gap, maxActivation - nextQActionPrev))
    IN  [targetC |-> targetC, reward |-> reward, dQ |-> dQ, dPAL |-> dPAL,
         delta |-> Mul(alpha, dPAL),
         maxActivation |-> maxActivation, maxActivationPrev |-> maxActivationPrev,
         nextQActionPrev |-> nextQActionPrev, qActionPrev |-> qActionPrev]

\* The quantities Actor::learn computes at hidden column pos before it
\* touches a weight.
learnDelta(pos, a, inputCs, hiddenCsPrev, feedBackCsPrev, inputCsPrev) ==
    LET hiddenColumnIndex == address2C(pos, hiddenSize)
        targetC == hiddenCsPrev[hiddenColumnIndex]
        count == learnCount(a.hiddenCounts, hiddenColumnIndex)
        sum == [hc \in HiddenCodes |-> Support(a.weights, inputCs, pos, hc) \div count]
        sumPrev == [hc \in HiddenCodes |-> Support(a.weights, inputCsPrev, pos, hc) \div count]
        maxActivation == MaxLoop(sum, 0, 0, MinActivation).value
        maxActivationPrev == MaxLoop(sumPrev, 0, 0, MinActivation).value
        nextQActionPrev == sum[targetC]
        qActionPrev == sumPrev[targetC]
        reward == IF targetC = feedBackCsPrev[hiddenColumnIndex] THEN Scale ELSE 0
        dQ == reward + Mul(gamma, maxActivation) - qActionPrev
        dAdv == dQ - Mul(gap, maxActivationPrev - qActionPrev)
        dPAL == Max2(dAdv, dQ - Mul(gap, maxActivation - nextQActionPrev))
    IN  [targetC |-> targetC, reward |-> reward, dQ |-> dQ, dPAL |-> dPAL,
         delta |-> Mul(alpha, dPAL),
         maxActivation |-> maxActivation, maxActivationPrev |-> maxActivationPrev,
         nextQActionPrev |-> nextQActionPrev, qActionPrev |-> qActionPrev]

\* learn applying the delta against s's input codes instead of sPrev's.
learnAgainstNextInputs(pos, a, inputCs, hiddenCsPrev, feedBackCsPrev, inputCsPrev) ==
    LET d == learnDelta(pos, a, inputCs, hiddenCsPrev, feedBackCsPrev, inputCsPrev)
        hiddenIndex == address3C([x |-> pos.x, y |-> pos.y, z |-> d.targetC], hiddenSize)
    IN  [a EXCEPT !.weights =
            [vli \in Layers |-> deltaOHVs(a.weights[vli], vli, inputCs[vli], d.delta, hiddenIndex)]]

\* Actor::learn at hidden column pos.
learn(pos, a, inputCs, hiddenCsPrev, feedBackCsPrev, inputCsPrev) ==
    LET d == learnDelta(pos, a, inputCs, hiddenCsPrev, feedBackCsPrev, inputCsPrev)
        hiddenIndex == address3C([x |-> pos.x, y |-> pos.y, z |-> d.targetC], hiddenSize)
    IN  [a EXCEPT !.weights =
            [vli \in Layers |-> deltaOHVs(a.weights[vli], vli, inputCsPrev[vli], d.delta, hiddenIndex)]]

\* The learn kernel over every hidden column (x outer, y inner).
RECURSIVE LearnPass(_, _, _, _, _, _)
LearnPass(k, a, inputCs, hiddenCsPrev, feedBackCsPrev, inputCsPrev) ==
    IF k > numHiddenColumns THEN a
    ELSE LearnPass(k + 1,
            learn(ColumnSeq(hiddenSize)[k], a, inputCs, hiddenCsPrev, feedBackCsPrev, inputCsPrev),
            inputCs, hiddenCsPrev, feedBackCsPrev, inputCsPrev)

(***************************************************************************)
(* SparseCoder: construction parameters and hyperparameters.               *)
(***************************************************************************)
\* _hiddenSize of the SparseCoder: 2 x 1 columns of 2 codes.
scHiddenSize == [x |-> 2, y |-> 1, z |-> 2]

\* _visibleLayerDescs of the SparseCoder: a 3 x 1 layer seen through
\* overlapping, clamped fields (radius 1), a single column (radius 0), and a
\* 3 x 1 layer seen through fields of one column (radius 0), whose middle
\* column lies in no field.
scVisibleLayerDescs ==
    << [size |-> [x |-> 3, y |-> 1, z |-> 2], radius |-> 1],
       [size |-> [x |-> 1, y |-> 1, z |-> 2], radius |-> 0],
       [size |-> [x |-> 3, y |-> 1, z |-> 2], radius |-> 0] >>

\* _alpha as <<num, den>>, and _explainIters.
VARIABLE scAlpha
explainIters == 2

ScLayers == 1..Len(scVisibleLayerDescs)
scNumHiddenColumns == scHiddenSize.x * scHiddenSize.y
scNumHidden == scNumHiddenColumns * scHiddenSize.z
scNumVisibleColumns(vli) == scVisibleLayerDescs[vli].size.x * scVisibleLayerDescs[vli].size.y
scDiam(vli) == scVisibleLayerDescs[vli].radius * 2 + 1
scWeightsSize(vli) ==
    scNumHidden * scDiam(vli) * scDiam(vli) * scVisibleLayerDescs[vli].size.z

\* ceil(num / den) for num >= 0, den > 0.
Ceil(num, den) == (num + den - 1) \div den

\* _reverseRadii = ceil(_visibleToHidden * radius) + 1 on each axis, for a
\* hidden extent hs and a visible layer descriptor vld.
reverseRadiiOf(hs, vld) ==
    [x |-> Ceil(hs.x * vld.radius, vld.size.x) + 1,
     y |-> Ceil(hs.y * vld.radius, vld.size.y) + 1]

\* _reverseRadii of layer vli of the SparseCoder.
reverseRadii(vli) == reverseRadiiOf(scHiddenSize, scVisibleLayerDescs[vli])

\* address3(pos, size): flat index of a unit of a grid.
address3(pos, size) == pos.z * size.x * size.y + address2(pos, size.x)

\* address4(pos, dims): flat index of a weight.
address4(pos, dims) ==
    pos.x + pos.y * dims.x + pos.z * dims.x * dims.y + pos.w * dims.x * dims.y * dims.z

\* inBounds(pos, lower, upper): lower <= pos < upper on each axis.
inBounds(pos, lower, upper) ==
    /\ pos.x >= lower.x /\ pos.x < upper.x
    /\ pos.y >= lower.y /\ pos.y < upper.y

\* The positions lx..ux by ly..uy.
Box(lx, ux, ly, uy) == {[x |-> bx, y |-> by] : bx \in lx..ux, by \in ly..uy}

\* forward: fieldLowerBound of hidden column h, the lower corner of its
\* receptive field around project(h, _hiddenToVisible), not clamped.
fieldLowerBoundOf(hs, vld, h) ==
    LET center == project(h, hs, vld.size)
    IN  [x |-> center.x - vld.radius, y |-> center.y - vld.radius]

\* forward: the visible positions the loops from iterLowerBound to
\* iterUpperBound visit for hidden column h.
forwardField(hs, vld, h) ==
    LET flb == fieldLowerBoundOf(hs, vld, h)
    IN  Box(Max2(0, flb.x), Min2(vld.size.x - 1, flb.x + 2 * vld.radius),
            Max2(0, flb.y), Min2(vld.size.y - 1, flb.y + 2 * vld.radius))

\* forward: the relative offset of visible position v in the field of h.
fieldOffset(hs, vld, h, v) ==
    LET flb == fieldLowerBoundOf(hs, vld, h)
        diam == vld.radius * 2 + 1
    IN  v.x - flb.x + (v.y - flb.y) * diam

\* forwardAddress taking the visible position itself for the offset.
forwardAddressAbsolute(hs, vld, h, hc, v, visibleC) ==
    LET dxy == hs.x * hs.y
        diam == vld.radius * 2 + 1
    IN  h.x + h.y * hs.x + hc * dxy + (v.x + v.y * diam + visibleC * diam * diam) * (dxy * hs.z)

\* forward: the weight index dPartial + az * dxyz of hidden unit (h, hc)
\* for visible position v holding code visibleC.
forwardAddress(hs, vld, h, hc, v, visibleC) ==
    LET dxy == hs.x * hs.y
        dxyz == dxy * hs.z
        dPartial == h.x + h.y * hs.x + hc * dxy
        diam == vld.radius * 2 + 1
        az == fieldOffset(hs, vld, h, v) + visibleC * (diam * diam)
    IN  dPartial + az * dxyz

\* backward and learn: the hidden positions from iterLowerBound to
\* iterUpperBound around project(pos, _visibleToHidden).
backwardWindow(hs, vld, pos) ==
    LET center == project(pos, vld.size, hs)
        rr == reverseRadiiOf(hs, vld)
    IN  Box(Max2(0, center.x - rr.x), Min2(hs.x - 1, center.x + rr.x),
            Max2(0, center.y - rr.y), Min2(hs.y - 1, center.y + rr.y))

\* backward and learn: the containment check of pos in the field of h.
fieldHolds(hs, vld, h, pos) ==
    LET flb == fieldLowerBoundOf(hs, vld, h)
    IN  inBounds(pos, flb, [x |-> flb.x + 2 * vld.radius + 1, y |-> flb.y + 2 * vld.radius + 1])

\* backwardAddress leaving the hidden code out of wPos.
backwardAddressCodeZero(hs, vld, h, hiddenC, pos, vc) ==
    LET flb == fieldLowerBoundOf(hs, vld, h)
        diam == vld.radius * 2 + 1
    IN  address4([x |-> h.x, y |-> h.y, z |-> 0,
                  w |-> pos.x - flb.x + (pos.y - flb.y) * diam + vc * (diam * diam)], hs)

\* backward and learn: address4(wPos, _hiddenSize) of the weight of hidden
\* unit (h, hiddenC) for visible unit (pos, vc).
backwardAddress(hs, vld, h, hiddenC, pos, vc) ==
    LET flb == fieldLowerBoundOf(hs, vld, h)
        diam == vld.radius * 2 + 1
    IN  address4([x |-> h.x, y |-> h.y, z |-> hiddenC,
                  w |-> pos.x - flb.x + (pos.y - flb.y) * diam + vc * (diam * diam)], hs)

(***************************************************************************)
(* SparseCoder kernels.  A kernel takes the engine's buffers c = [weights, *)
(* hiddenCs, hiddenActivations, reconCs] and returns them as the           *)
(* invocation leaves them.                                                 *)
(***************************************************************************)
\* The visible positions forward visits, for every layer and hidden column
\* of the SparseCoder.
scFields ==
    [vli \in ScLayers |-> [h \in Columns(scHiddenSize) |->
        forwardField(scHiddenSize, scVisibleLayerDescs[vli], h)]]

\* The feed-forward sum of SparseCoder::forward for hidden unit (pos, hc) of
\* layer vli against the codes cs: the weights at
\* dPartial + az * dxyz over the clamped receptive field.
scFieldSum(c, vli, pos, hc, cs) ==
    LET vld == scVisibleLayerDescs[vli]
        F == scFields[vli][pos]
    IN  SumOver([v \in F |->
                    c.weights[vli][forwardAddress(scHiddenSize, vld, pos, hc, v,
                                                  cs[address2(v, vld.size.x)])]], F)

\* The sum of scFieldSum over the visible layers.
RECURSIVE scLayerSum(_, _, _, _, _)
scLayerSum(c, vli, pos, hc, css) ==
    IF vli > Len(scVisibleLayerDescs) THEN 0
    ELSE scFieldSum(c, vli, pos, hc, css[vli]) + scLayerSum(c, vli + 1, pos, hc, css)

\* scForwardLoop adding the input support on later iterations without
\* subtracting the support of the reconstruction.
RECURSIVE scForwardLoopNoExplainingAway(_, _, _, _, _, _, _)
scForwardLoopNoExplainingAway(c, pos, inputCs, firstIter, hc, maxIndex, maxValue) ==
    IF hc >= scHiddenSize.z
    THEN [c EXCEPT !.hiddenCs[address2(pos, scHiddenSize.x)] = maxIndex]
    ELSE LET hiddenIndex == address3([x |-> pos.x, y |-> pos.y, z |-> hc], scHiddenSize)
             inputActivation == scLayerSum(c, 1, pos, hc, inputCs)
             activation == IF firstIter THEN inputActivation
                           ELSE c.hiddenActivations[hiddenIndex] + inputActivation
             d == [c EXCEPT !.hiddenActivations[hiddenIndex] = activation]
         IN  IF activation > maxValue
             THEN scForwardLoopNoExplainingAway(d, pos, inputCs, firstIter, hc + 1, hc, activation)
             ELSE scForwardLoopNoExplainingAway(d, pos, inputCs, firstIter, hc + 1, maxIndex, maxValue)

\* scForwardLoop adding to the stored activation in the first iteration too.
RECURSIVE scForwardLoopAccumulating(_, _, _, _, _, _, _)
scForwardLoopAccumulating(c, pos, inputCs, firstIter, hc, maxIndex, maxValue) ==
    IF hc >= scHiddenSize.z
    THEN [c EXCEPT !.hiddenCs[address2(pos, scHiddenSize.x)] = maxIndex]
    ELSE LET hiddenIndex == address3([x |-> pos.x, y |-> pos.y, z |-> hc], scHiddenSize)
             inputActivation == scLayerSum(c, 1, pos, hc, inputCs)
             reconActivation == IF firstIter THEN 0 ELSE scLayerSum(c, 1, pos, hc, c.reconCs)
             activation == c.hiddenActivations[hiddenIndex] + inputActivation - reconActivation
             d == [c EXCEPT !.hiddenActivations[hiddenIndex] = activation]
         IN  IF activation > maxValue
             THEN scForwardLoopAccumulating(d, pos, inputCs, firstIter, hc + 1, hc, activation)
             ELSE scForwardLoopAccumulating(d, pos, inputCs, firstIter, hc + 1, maxIndex, maxValue)

\* The loop of SparseCoder::forward over the codes of column pos: store the
\* activation of each unit, keep the running maximum.
RECURSIVE scForwardLoop(_, _, _, _, _, _, _)
scForwardLoop(c, pos, inputCs, firstIter, hc, maxIndex, maxValue) ==
    IF hc >= scHiddenSize.z
    THEN [c EXCEPT !.hiddenCs[address2(pos, scHiddenSize.x)] = maxIndex]
    ELSE LET hiddenIndex == address3([x |-> pos.x, y |-> pos.y, z |-> hc], scHiddenSize)
             inputActivation == scLayerSum(c, 1, pos, hc, inputCs)
             reconActivation == IF firstIter THEN 0 ELSE scLayerSum(c, 1, pos, hc, c.reconCs)
             activation == IF firstIter THEN inputActivation
                           ELSE c.hiddenActivations[hiddenIndex] + inputActivation - reconActivation
             d == [c EXCEPT !.hiddenActivations[hiddenIndex] = activation]
         IN  IF activation > maxValue
             THEN scForwardLoop(d, pos, inputCs, firstIter, hc + 1, hc, activation)
             ELSE scForwardLoop(d, pos, inputCs, firstIter, hc + 1, maxIndex, maxValue)

\* scForward storing the flat index of the winning unit instead of its code.
scForwardFlatIndex(pos, c, inputCs, firstIter) ==
    LET d == scForwardLoop(c, pos, inputCs, firstIter, 0, 0, MinActivation)
        col == address2(pos, scHiddenSize.x)
    IN  [d EXCEPT !.hiddenCs[col] =
            address3([x |-> pos.x, y |-> pos.y, z |-> d.hiddenCs[col]], scHiddenSize)]

\* SparseCoder::forward at hidden column pos.
scForward(pos, c, inputCs, firstIter) ==
    scForwardLoop(c, pos, inputCs, firstIter, 0, 0, MinActivation)

\* The hidden columns backward and learn sum over, for every layer and
\* visible column of the SparseCoder.
scCoverings ==
    [vli \in ScLayers |-> [pos \in Columns(scVisibleLayerDescs[vli].size) |->
        {h \in backwardWindow(scHiddenSize, scVisibleLayerDescs[vli], pos) :
            fieldHolds(scHiddenSize, scVisibleLayerDescs[vli], h, pos)}]]

\* The hidden columns SparseCoder::backward and learn visit for visible
\* column pos of layer vli: the window of half-width _reverseRadii around the
\* projected centre, clamped, filtered by containment of pos in the column's
\* receptive field.
scCovering(vli, pos) == scCoverings[vli][pos]

\* scWeightAddress without the relative offset of pos in the field of h.
scWeightAddressNoOffset(c, vli, h, pos, vc) ==
    LET diam == scVisibleLayerDescs[vli].radius * 2 + 1
        hiddenC == c.hiddenCs[address2(h, scHiddenSize.x)]
    IN  address4([x |-> h.x, y |-> h.y, z |-> hiddenC, w |-> vc * diam * diam], scHiddenSize)

\* The address of the weight between hidden column h at its current code and
\* visible unit (pos, vc) of layer vli, as backward and learn compute it.
scWeightAddress(c, vli, h, pos, vc) ==
    backwardAddress(scHiddenSize, scVisibleLayerDescs[vli], h,
                    c.hiddenCs[address2(h, scHiddenSize.x)], pos, vc)

\* count of backward and learn: the hidden columns whose field holds pos.
scCount(vli, pos) == Cardinality(scCovering(vli, pos))

\* The divisor without the floor: count itself.
scNormaliserUnclamped(vli, pos) == scCount(vli, pos)

\* std::max(1.0f, count), the divisor of backward and learn.
scNormaliser(vli, pos) == Max2(1, scCount(vli, pos))

\* sum / max(1, count) of backward and learn for visible unit (pos, vc).
scAverage(c, vli, pos, vc) ==
    LET H == scCovering(vli, pos)
        sum == SumOver([h \in H |-> c.weights[vli][scWeightAddress(c, vli, h, pos, vc)]], H)
    IN  sum \div scNormaliser(vli, pos)

\* The running-max loop of SparseCoder::backward over the visible codes.
RECURSIVE scBackwardLoop(_, _, _, _, _, _)
scBackwardLoop(c, vli, pos, vc, maxIndex, maxValue) ==
    IF vc >= scVisibleLayerDescs[vli].size.z THEN maxIndex
    ELSE LET sum == scAverage(c, vli, pos, vc)
         IN  IF sum > maxValue THEN scBackwardLoop(c, vli, pos, vc + 1, vc, sum)
             ELSE scBackwardLoop(c, vli, pos, vc + 1, maxIndex, maxValue)

\* scBackward that also clears the weights it has read for the winning code.
scBackwardClearingWeights(pos, c, vli) ==
    LET r == scBackwardLoop(c, vli, pos, 0, 0, MinActivation)
        A == {scWeightAddress(c, vli, h, pos, r) : h \in scCovering(vli, pos)}
    IN  [c EXCEPT !.reconCs[vli][address2(pos, scVisibleLayerDescs[vli].size.x)] = r,
                  !.weights[vli] = [k \in DOMAIN @ |-> IF k \in A THEN 0 ELSE @[k]]]

\* SparseCoder::backward at visible column pos of layer vli.
scBackward(pos, c, vli) ==
    [c EXCEPT !.reconCs[vli][address2(pos, scVisibleLayerDescs[vli].size.x)] =
        scBackwardLoop(c, vli, pos, 0, 0, MinActivation)]

\* Adding delta to the weights at the addresses A.
scAddAt(W, A, delta) == [k \in DOMAIN W |-> IF k \in A THEN W[k] + delta ELSE W[k]]

\* scLearnLoop moving the weights toward the target by the error of their
\* sum instead of their average.
RECURSIVE scLearnLoopUnnormalised(_, _, _, _, _)
scLearnLoopUnnormalised(c, vli, pos, inputC, vc) ==
    IF vc >= scVisibleLayerDescs[vli].size.z THEN c
    ELSE LET target == IF vc = inputC THEN Scale ELSE 0
             H == scCovering(vli, pos)
             sum == SumOver([h \in H |-> c.weights[vli][scWeightAddress(c, vli, h, pos, vc)]], H)
             delta == Mul(scAlpha, target - sum)
             A == {scWeightAddress(c, vli, h, pos, vc) : h \in H}
         IN  scLearnLoopUnnormalised([c EXCEPT !.weights[vli] = scAddAt(c.weights[vli], A, delta)],
                                     vli, pos, inputC, vc + 1)

\* The loop of SparseCoder::learn over the visible codes of column pos.
RECURSIVE scLearnLoop(_, _, _, _, _)
scLearnLoop(c, vli, pos, inputC, vc) ==
    IF vc >= scVisibleLayerDescs[vli].size.z THEN c
    ELSE LET target == IF vc = inputC THEN Scale ELSE 0
             delta == Mul(scAlpha, target - scAverage(c, vli, pos, vc))
             A == {scWeightAddress(c, vli, h, pos, vc) : h \in scCovering(vli, pos)}
         IN  scLearnLoop([c EXCEPT !.weights[vli] = scAddAt(c.weights[vli], A, delta)],
                         vli, pos, inputC, vc + 1)

\* SparseCoder::learn at visible column pos of layer vli.
scLearn(pos, c, inputCs, vli) ==
    scLearnLoop(c, vli, pos, inputCs[vli][address2(pos, scVisibleLayerDescs[vli].size.x)], 0)

\* A forward kernel that breaks from the source: it shifts the code it
\* chose by a draw from the generator.
scForwardKernelDrawing(pos, rng, c, inputCs, firstIter) ==
    LET d == scForward(pos, c, inputCs, firstIter)
    IN  [d EXCEPT !.hiddenCs[address2(pos, scHiddenSize.x)] = (@ + rng) % scHiddenSize.z]

\* SparseCoder::forward as activate dispatches it: the kernel is handed the
\* generator and never draws from it.
scForwardKernel(pos, rng, c, inputCs, firstIter) == scForward(pos, c, inputCs, firstIter)

\* SparseCoder::backward as activate dispatches it, handed the generator.
scBackwardKernel(pos, rng, c, vli) == scBackward(pos, c, vli)

\* SparseCoder::learn as learn(cs, visibleCs) dispatches it, handed the
\* generator.
scLearnKernel(pos, rng, c, inputCs, vli) == scLearn(pos, c, inputCs, vli)

\* The forward kernel over every hidden column (x outer, y inner).
RECURSIVE scForwardPass(_, _, _, _, _)
scForwardPass(k, rng, c, inputCs, firstIter) ==
    IF k > scNumHiddenColumns THEN c
    ELSE scForwardPass(k + 1, rng,
                       scForwardKernel(ColumnSeq(scHiddenSize)[k], rng, c, inputCs, firstIter),
                       inputCs, firstIter)

\* A backward pass that returns after its first invocation.
scBackwardPassFirstColumnOnly(k, rng, c, vli) ==
    scBackwardKernel(ColumnSeq(scVisibleLayerDescs[vli].size)[1], rng, c, vli)

\* The backward kernel over every visible column of layer vli.
RECURSIVE scBackwardPass(_, _, _, _)
scBackwardPass(k, rng, c, vli) ==
    IF k > scNumVisibleColumns(vli) THEN c
    ELSE scBackwardPass(k + 1, rng,
                        scBackwardKernel(ColumnSeq(scVisibleLayerDescs[vli].size)[k], rng, c, vli),
                        vli)

\* The learn kernel over every visible column of layer vli.
RECURSIVE scLearnPass(_, _, _, _, _)
scLearnPass(k, rng, c, inputCs, vli) ==
    IF k > scNumVisibleColumns(vli) THEN c
    ELSE scLearnPass(k + 1, rng,
                     scLearnKernel(ColumnSeq(scVisibleLayerDescs[vli].size)[k], rng, c, inputCs, vli),
                     inputCs, vli)

\* SparseCoder::learn(cs, visibleCs): the learn kernel, layer after layer.
RECURSIVE scLearnLayers(_, _, _, _)
scLearnLayers(vli, rng, c, inputCs) ==
    IF vli > Len(scVisibleLayerDescs) THEN c
    ELSE scLearnLayers(vli + 1, rng, scLearnPass(1, rng, c, inputCs, vli), inputCs)

(***************************************************************************)
(* Monte-Carlo Actor (neo/Actor.cpp): construction parameters,             *)
(* hyperparameters and kernels.  A kernel takes the engine's buffers       *)
(* m = [valueWeights, actionWeights, hiddenCs, hiddenValues].              *)
(***************************************************************************)
\* _hiddenSize: one column of 2 action codes.
mcHiddenSize == [x |-> 1, y |-> 1, z |-> 2]

\* _visibleLayerDescs: a 2 x 1 layer seen through a clamped field.
mcVisibleLayerDescs == << [size |-> [x |-> 2, y |-> 1, z |-> 2], radius |-> 1] >>

\* _alpha and _gamma as <<num, den>>.
mcAlpha == <<1, 2>>
mcGamma == <<9, 10>>

McLayers == 1..Len(mcVisibleLayerDescs)
mcNumHiddenColumns == mcHiddenSize.x * mcHiddenSize.y
mcNumHidden == mcNumHiddenColumns * mcHiddenSize.z
mcNumVisibleColumns(vli) == mcVisibleLayerDescs[vli].size.x * mcVisibleLayerDescs[vli].size.y
mcWeightsSizeValue(vli) ==
    LET diam == mcVisibleLayerDescs[vli].radius * 2 + 1
    IN  mcNumHiddenColumns * diam * diam * mcVisibleLayerDescs[vli].size.z
mcWeightsSizeAction(vli) ==
    LET diam == mcVisibleLayerDescs[vli].radius * 2 + 1
    IN  mcNumHidden * diam * diam * mcVisibleLayerDescs[vli].size.z

\* The clamped receptive field of hidden column pos in a visible grid of
\* extent vsize seen from a hidden grid of extent hsize with the given radius:
\* the iteration bounds and the unclamped lower corner.
fieldBounds(pos, hsize, vsize, radius) ==
    LET center == project(pos, hsize, vsize)
    IN  [lower |-> [x |-> center.x - radius, y |-> center.y - radius],
         lx |-> Max2(0, center.x - radius), ux |-> Min2(vsize.x - 1, center.x + radius),
         ly |-> Max2(0, center.y - radius), uy |-> Min2(vsize.y - 1, center.y + radius)]

\* count += (iterUpperBound.x - iterLowerBound.x + 1)
\*          * (iterUpperBound.y - iterLowerBound.y + 1).
fieldCount(pos, hsize, vsize, radius) ==
    LET b == fieldBounds(pos, hsize, vsize, radius)
    IN  (b.ux - b.lx + 1) * (b.uy - b.ly + 1)

\* The count of Actor::forward and Actor::learn: fieldCount over the layers.
RECURSIVE mcCount(_, _)
mcCount(pos, vli) ==
    IF vli > Len(mcVisibleLayerDescs) THEN 0
    ELSE fieldCount(pos, mcHiddenSize, mcVisibleLayerDescs[vli].size,
                    mcVisibleLayerDescs[vli].radius) + mcCount(pos, vli + 1)

\* std::max(1.0f, count), the divisor of the value and of the activations.
mcNormaliser(pos) == Max2(1, mcCount(pos, 1))

\* The az of the kernels for visible column v of layer vli under the codes cs.
mcAz(pos, vli, v, cs) ==
    LET vld == mcVisibleLayerDescs[vli]
        b == fieldBounds(pos, mcHiddenSize, vld.size, vld.radius)
        diam == vld.radius * 2 + 1
    IN  v.x - b.lower.x + (v.y - b.lower.y) * diam + cs[address2(v, vld.size.x)] * diam * diam

\* The visible columns of layer vli the kernels visit for hidden column pos.
mcField(pos, vli) ==
    LET vld == mcVisibleLayerDescs[vli]
        b == fieldBounds(pos, mcHiddenSize, vld.size, vld.radius)
    IN  Box(b.lx, b.ux, b.ly, b.uy)

\* The sum of the value weights addressed by the codes css, over the layers.
RECURSIVE mcValueSum(_, _, _, _)
mcValueSum(m, pos, vli, css) ==
    IF vli > Len(mcVisibleLayerDescs) THEN 0
    ELSE LET dxy == mcHiddenSize.x * mcHiddenSize.y
             dPartialValue == pos.x + pos.y * mcHiddenSize.x
             F == mcField(pos, vli)
         IN  SumOver([v \in F |-> m.valueWeights[vli][dPartialValue + mcAz(pos, vli, v, css[vli]) * dxy]], F)
             + mcValueSum(m, pos, vli + 1, css)

\* The sum of the action weights of unit (pos, hc) addressed by the codes css.
RECURSIVE mcActionSum(_, _, _, _, _)
mcActionSum(m, pos, hc, vli, css) ==
    IF vli > Len(mcVisibleLayerDescs) THEN 0
    ELSE LET dxy == mcHiddenSize.x * mcHiddenSize.y
             dxyz == dxy * mcHiddenSize.z
             dPartialAction == pos.x + pos.y * mcHiddenSize.x + hc * dxy
             F == mcField(pos, vli)
         IN  SumOver([v \in F |-> m.actionWeights[vli][dPartialAction + mcAz(pos, vli, v, css[vli]) * dxyz]], F)
             + mcActionSum(m, pos, hc, vli + 1, css)

\* The running-max loop of Actor::forward over the action codes.
RECURSIVE mcMaxLoop(_, _, _, _, _, _)
mcMaxLoop(m, pos, inputCs, hc, maxIndex, maxActivation) ==
    IF hc >= mcHiddenSize.z THEN maxIndex
    ELSE LET activation == mcActionSum(m, pos, hc, 1, inputCs) \div mcNormaliser(pos)
         IN  IF activation > maxActivation
             THEN mcMaxLoop(m, pos, inputCs, hc + 1, hc, activation)
             ELSE mcMaxLoop(m, pos, inputCs, hc + 1, maxIndex, maxActivation)

\* Actor::forward at hidden column pos.  explore is the code drawn when
\* dist01(rng) < _epsilon, or -1 when the draw keeps the greedy action.
mcForward(pos, m, inputCs, explore) ==
    LET hiddenIndex == address2(pos, mcHiddenSize.x)
        value == mcValueSum(m, pos, 1, inputCs) \div mcNormaliser(pos)
    IN  [m EXCEPT !.hiddenValues[hiddenIndex] = value,
                  !.hiddenCs[hiddenIndex] =
                      IF explore >= 0 THEN explore
                      ELSE mcMaxLoop(m, pos, inputCs, 0, 0, MinActivation)]

\* The weight increments of Actor::learn for layer vli.
mcLearnLayer(m, pos, vli, inputCsPrev, hiddenCPrev, tdError) ==
    LET dxy == mcHiddenSize.x * mcHiddenSize.y
        dxyz == dxy * mcHiddenSize.z
        dPartialValue == pos.x + pos.y * mcHiddenSize.x
        dPartialAction == pos.x + pos.y * mcHiddenSize.x + hiddenCPrev * dxy
        F == mcField(pos, vli)
        AV == {dPartialValue + mcAz(pos, vli, v, inputCsPrev[vli]) * dxy : v \in F}
        AA == {dPartialAction + mcAz(pos, vli, v, inputCsPrev[vli]) * dxyz : v \in F}
    IN  [m EXCEPT !.valueWeights[vli] =
                      [k \in DOMAIN @ |-> IF k \in AV THEN @[k] + Mul(mcAlpha, tdError) ELSE @[k]],
                  !.actionWeights[vli] =
                      [k \in DOMAIN @ |-> IF k \in AA THEN @[k] + tdError ELSE @[k]]]

RECURSIVE mcLearnLayers(_, _, _, _, _, _)
mcLearnLayers(m, pos, vli, inputCsPrev, hiddenCPrev, tdError) ==
    IF vli > Len(mcVisibleLayerDescs) THEN m
    ELSE mcLearnLayers(mcLearnLayer(m, pos, vli, inputCsPrev, hiddenCPrev, tdError),
                       pos, vli + 1, inputCsPrev, hiddenCPrev, tdError)

\* Actor::learn at hidden column pos.
mcLearn(pos, m, inputCsPrev, hiddenCsPrev, q, g) ==
    LET hiddenIndex == address2(pos, mcHiddenSize.x)
        valuePrev == mcValueSum(m, pos, 1, inputCsPrev) \div mcNormaliser(pos)
        tdError == q + (g * m.hiddenValues[hiddenIndex]) \div Scale - valuePrev
    IN  mcLearnLayers(m, pos, 1, inputCsPrev, hiddenCsPrev[hiddenIndex], tdError)

\* The forward kernel over every hidden column; explore[i] is the draw of
\* column i.
RECURSIVE mcForwardPass(_, _, _, _)
mcForwardPass(k, m, inputCs, explore) ==
    IF k > mcNumHiddenColumns THEN m
    ELSE LET pos == ColumnSeq(mcHiddenSize)[k]
         IN  mcForwardPass(k + 1, mcForward(pos, m, inputCs, explore[address2(pos, mcHiddenSize.x)]),
                           inputCs, explore)

\* The learn kernel over every hidden column.
RECURSIVE mcLearnPass(_, _, _, _, _, _)
mcLearnPass(k, m, inputCsPrev, hiddenCsPrev, q, g) ==
    IF k > mcNumHiddenColumns THEN m
    ELSE mcLearnPass(k + 1, mcLearn(ColumnSeq(mcHiddenSize)[k], m, inputCsPrev, hiddenCsPrev, q, g),
                     inputCsPrev, hiddenCsPrev, q, g)

\* std::pow(_gamma, n) in fixed-point units.
RECURSIVE mcPow(_, _)
mcPow(r, n) == IF n <= 0 THEN Scale ELSE Mul(r, mcPow(r, n - 1))

(***************************************************************************)
(* Actor state.                                                            *)
(***************************************************************************)
VARIABLES
    weights,          \* _visibleLayers[vli]._weights
    hiddenCs,         \* _hiddenCs
    hiddenCounts,     \* _hiddenCounts
    historySize,      \* _historySize
    historySamples,   \* _historySamples, positions 0..capacity-1
    pc,               \* position inside Actor::step: idle, add, learn, crashed
    call,             \* the arguments of the current (or last) call of step
    it,               \* the replay loop counter of step
    stepCount,        \* number of calls of step so far
    recent,           \* the triples passed to the last calls of step, oldest first
    learnLog,         \* the replay updates of the current (or last) call of step
    oob,              \* a copy wrote outside an allocated buffer
    build,            \* what this build does on a write past the end of a buffer
    scWeights,        \* SparseCoder _visibleLayers[vli]._weights
    scHiddenCs,       \* SparseCoder _hiddenCs
    scHiddenActivations, \* SparseCoder _hiddenActivations
    scReconCs,        \* SparseCoder _visibleLayers[vli]._reconCs
    scPc,             \* position inside SparseCoder::activate: idle, forward, backward
    scCall,           \* the visibleCs of the current (or last) SparseCoder call
    scIt,             \* the iteration counter of activate
    scVli,            \* the layer counter of activate
    scCalls,          \* number of SparseCoder calls so far
    mcValueWeights,   \* Monte-Carlo Actor _visibleLayers[vli]._valueWeights
    mcActionWeights,  \* Monte-Carlo Actor _visibleLayers[vli]._actionWeights
    mcHiddenCs,       \* Monte-Carlo Actor _hiddenCs
    mcHiddenValues,   \* Monte-Carlo Actor _hiddenValues
    mcHistorySize,    \* Monte-Carlo Actor _historySize
    mcHistorySamples, \* Monte-Carlo Actor _historySamples
    mcPc,             \* Monte-Carlo Actor: idle once constructed
    mcSteps,          \* number of calls of the Monte-Carlo Actor's step so far
    stream,           \* the words writeToStream wrote (empty: nothing written)
    restored          \* the instance readFromStream filled, and the stream it read

actorVars == <<weights, hiddenCs, hiddenCounts, historySize, historySamples,
               pc, call, it, stepCount, recent, learnLog, oob, build>>

scVars == <<scWeights, scHiddenCs, scHiddenActivations, scReconCs,
            scPc, scCall, scIt, scVli, scCalls, scAlpha>>

mcVars == <<mcValueWeights, mcActionWeights, mcHiddenCs, mcHiddenValues,
            mcHistorySize, mcHistorySamples, mcPc, mcSteps>>

ioVars == <<stream, restored>>

(***************************************************************************)
(* State of the kernel-level specification: one kernel or addressing       *)
(* function applied to arguments drawn from bounded sets.                  *)
(***************************************************************************)
VARIABLES
    lone,             \* an Actor of one hidden column of depth 1 under replay updates
    geom,             \* a SparseCoder geometry: hidden extent, one visible layer descriptor
    probe             \* the last application of an addressing function to geom

pureVars == <<lone, geom, probe>>

\* A buffer holding the elements of a sequence.
Buf(seq) == [i \in 0..(Len(seq) - 1) |-> seq[i + 1]]

\* The input CSDRs (one buffer per visible layer), action CSDRs and feedback
\* CSDRs the caller passes to step.
StepArgs ==
    { [inputCs |-> <<Buf(<<0, 1>>), Buf(<<0>>)>>, hiddenCs |-> Buf(<<0, 1>>),
       feedBackCs |-> Buf(<<0, 0>>)],
      [inputCs |-> <<Buf(<<1, 1>>), Buf(<<1>>)>>, hiddenCs |-> Buf(<<1, 1>>),
       feedBackCs |-> Buf(<<0, 1>>)] }

\* std::make_shared<HistorySample>() followed by the allocations of initRandom:
\* _inputCs and _hiddenCs are sized, _feedBackCs is left empty.  feedBackOob is
\* what the memory past the end of _feedBackCs holds, storedAt the number of
\* the call of step that last filled the sample (0: never).
NewSample ==
    [inputCs |-> [vli \in Layers |-> ZeroBuffer(numVisibleColumns(vli))],
     hiddenCs |-> ZeroBuffer(numHiddenColumns),
     feedBackCs |-> << >>,
     feedBackOob |-> ZeroBuffer(numHiddenColumns),
     storedAt |-> 0]

\* The weights initRandom draws from [-0.0001, 0): every weight is -1 unit, or
\* the weights of hidden code hc against visible code vc = hc are 0.
InitWeights ==
    { [vli \in Layers |-> [e \in NonZeros(vli) |-> -1]],
      [vli \in Layers |-> [e \in NonZeros(vli) |->
            IF e[1] % hiddenSize.z = e[3] THEN 0 ELSE -1]] }

\* _hiddenCounts[i] += counts(i * hiddenSize.z) / vld._size.z over the layers.
InitHiddenCounts ==
    LET RECURSIVE Acc(_, _)
        Acc(i, vli) == IF vli > Len(visibleLayerDescs) THEN 0
                       ELSE counts(vli, i * hiddenSize.z) \div visibleLayerDescs[vli].size.z
                            + Acc(i, vli + 1)
    IN  [i \in 0..(numHiddenColumns - 1) |-> Acc(i, 1)]

\* The outcomes of a write past the end of a buffer: the process faults, the
\* codes land in the memory behind the buffer and are read back from there,
\* or the write is lost and a later read finds what the memory held before.
Builds == {"fault", "kept", "lost"}

NoCall == [inputCs |-> << >>, hiddenCs |-> << >>, feedBackCs |-> << >>, learnEnabled |-> FALSE]

\* Actor::initRandom(cs, hiddenSize, historyCapacity, visibleLayerDescs).
initRandom ==
    /\ weights \in InitWeights
    /\ hiddenCs = ZeroBuffer(numHiddenColumns)
    /\ hiddenCounts = InitHiddenCounts
    /\ historySize = 0
    /\ \E historyCapacity \in 1..MaxCapacity :
            historySamples = [i \in 0..(historyCapacity - 1) |-> NewSample]
    /\ pc = "idle"
    /\ call = NoCall
    /\ it = 0
    /\ stepCount = 0
    /\ recent = << >>
    /\ learnLog = << >>
    /\ oob = FALSE
    /\ build \in Builds

Capacity == Size(historySamples)

(***************************************************************************)
(* Actor::step.                                                            *)
(***************************************************************************)
\* The copyInt kernel over positions 0..n-1: the writes that land inside dst.
copyInt(n, src, dst) == [x \in DOMAIN dst |-> IF x < n THEN src[x] ELSE dst[x]]

\* Some position 0..n-1 of the copy lies outside dst.
OutOfBounds(n, dst) == \E x \in 0..(n - 1) : x \notin DOMAIN dst

\* What the memory past the end of a buffer holds after an out-of-bounds
\* copy of src over old contents mem.
OobOutcome(src, mem) == IF build = "kept" THEN src ELSE mem

\* Rotate leaving every sample where it is, so that the newest is replaced.
RotateNothing(hs) ==
    LET n == Size(hs)
    IN  [i \in DOMAIN hs |-> IF i < n - 1 THEN hs[i] ELSE hs[n - 1]]

\* The circular buffer swap: every sample moves one position down, the
\* front sample is reused at the back.
Rotate(hs) ==
    LET n == Size(hs)
    IN  [i \in DOMAIN hs |-> IF i < n - 1 THEN hs[i + 1] ELSE hs[0]]

\* s._feedBackCs as the learn kernel reads it at positions 0..n-1.
FeedBackView(s) ==
    [x \in 0..(numHiddenColumns - 1) |->
        IF x \in DOMAIN s.feedBackCs THEN s.feedBackCs[x] ELSE s.feedBackOob[x]]

\* The last n elements of a sequence.
LastN(seq, n) == IF Len(seq) <= n THEN seq ELSE SubSeq(seq, Len(seq) - n + 1, Len(seq))

\* ReplayEnabled only while the history is still filling.
ReplayEnabledWhileFilling(learnEnabled, size) ==
    learnEnabled /\ size > 2 /\ size < Capacity

\* ReplayEnabled with the threshold one sample too low.
ReplayEnabledFromTwo(learnEnabled, size) == learnEnabled /\ size > 1

\* "Learn (if have sufficient samples)": the guard of the replay loop.
ReplayEnabled(learnEnabled, size) == learnEnabled /\ size > 2

\* step, first part: the forward kernel over the hidden columns.
StepForward(inputCs, hCs, feedBackCs, learnEnabled) ==
    /\ pc = "idle"
    /\ stepCount < MaxSteps
    /\ LET a == ForwardPass(1, [weights |-> weights, hiddenCs |-> hiddenCs,
                                hiddenCounts |-> hiddenCounts], inputCs)
       IN  /\ weights' = a.weights
           /\ hiddenCs' = a.hiddenCs
           /\ hiddenCounts' = a.hiddenCounts
    /\ call' = [inputCs |-> inputCs, hiddenCs |-> hCs, feedBackCs |-> feedBackCs,
                learnEnabled |-> learnEnabled]
    /\ pc' = "add"
    /\ stepCount' = stepCount + 1
    /\ learnLog' = << >>
    /\ UNCHANGED <<historySize, historySamples, it, recent, oob, build>>
    /\ UNCHANGED <<scVars, mcVars, ioVars, pureVars>>

\* step, second part ("Add sample", "Add new sample"): make room, then copy
\* the call's codes into the sample at position _historySize - 1.
StepAddSample ==
    /\ pc = "add"
    /\ LET full == historySize = Capacity
           size == IF full THEN historySize ELSE historySize + 1
           hs == IF full THEN Rotate(historySamples) ELSE historySamples
           s == hs[size - 1]
           fbOob == OutOfBounds(numHiddenColumns, s.feedBackCs)
       IN  /\ historySize' = size
           /\ fbOob => build # "fault"
           /\ historySamples' = [hs EXCEPT ![size - 1] =
                    [inputCs |-> [vli \in Layers |->
                                    copyInt(numVisibleColumns(vli), call.inputCs[vli], s.inputCs[vli])],
                     hiddenCs |-> copyInt(numHiddenColumns, call.hiddenCs, s.hiddenCs),
                     feedBackCs |-> copyInt(numHiddenColumns, call.feedBackCs, s.feedBackCs),
                     feedBackOob |-> IF fbOob THEN OobOutcome(call.feedBackCs, s.feedBackOob)
                                     ELSE s.feedBackOob,
                     storedAt |-> stepCount]]
           /\ oob' = (oob \/ fbOob \/ OutOfBounds(numHiddenColumns, s.hiddenCs)
                          \/ \E vli \in Layers : OutOfBounds(numVisibleColumns(vli), s.inputCs[vli]))
           /\ pc' = IF ReplayEnabled(call.learnEnabled, size) /\ 0 < historyIters
                    THEN "learn" ELSE "idle"
    /\ it' = 0
    /\ recent' = LastN(Append(recent, <<call.inputCs, call.hiddenCs, call.feedBackCs>>), Capacity)
    /\ UNCHANGED <<weights, hiddenCs, hiddenCounts, call, stepCount, learnLog, build>>
    /\ UNCHANGED <<scVars, mcVars, ioVars, pureVars>>

\* step, second part, when the out-of-bounds copy faults: the process ends.
StepFault ==
    /\ pc = "add"
    /\ LET full == historySize = Capacity
           size == IF full THEN historySize ELSE historySize + 1
           hs == IF full THEN Rotate(historySamples) ELSE historySamples
       IN  OutOfBounds(numHiddenColumns, hs[size - 1].feedBackCs)
    /\ build = "fault"
    /\ pc' = "crashed"
    /\ oob' = TRUE
    /\ UNCHANGED <<weights, hiddenCs, hiddenCounts, historySize, historySamples,
                   call, it, stepCount, recent, learnLog, build>>
    /\ UNCHANGED <<scVars, mcVars, ioVars, pureVars>>

\* ReplayArgs taking the action codes from sPrev instead of s.
ReplayArgsActionOfPrev(t) ==
    LET s == historySamples[t + 1]
        sPrev == historySamples[t]
    IN  [inputCs |-> s.inputCs, hiddenCsPrev |-> sPrev.hiddenCs,
         feedBackCsPrev |-> FeedBackView(s), inputCsPrev |-> sPrev.inputCs]

\* The arguments step binds to the learn kernel for the sampled index t:
\* learn(pos, rng, s._inputCs, &s._hiddenCs, &s._feedBackCs, sPrev._inputCs)
\* with s = *_historySamples[t + 1] and sPrev = *_historySamples[t].
ReplayArgs(t) ==
    LET s == historySamples[t + 1]
        sPrev == historySamples[t]
    IN  [inputCs |-> s.inputCs, hiddenCsPrev |-> s.hiddenCs,
         feedBackCsPrev |-> FeedBackView(s), inputCsPrev |-> sPrev.inputCs]

\* The buffers a kernel pass returns become the Actor's.
ActorBecomes(b) ==
    /\ weights' = b.weights
    /\ hiddenCs' = b.hiddenCs
    /\ hiddenCounts' = b.hiddenCounts

\* The replay update of sampled index t: learn bound to the arguments r, run
\* over every hidden column from the buffers a.
ReplayOnce(t, r, a) ==
    /\ ActorBecomes(LearnPass(1, a, r.inputCs, r.hiddenCsPrev, r.feedBackCsPrev, r.inputCsPrev))
    /\ learnLog' = Append(learnLog,
            [t |-> t, args |-> r,
             d |-> [i \in 0..(numHiddenColumns - 1) |->
                      learnDelta(ColumnPos(i), a, r.inputCs, r.hiddenCsPrev,
                                 r.feedBackCsPrev, r.inputCsPrev)]])

\* step, third part: one iteration of the replay loop.
StepLearn ==
    /\ pc = "learn"
    /\ \E t \in 0..(historySize - 2) :
            ReplayOnce(t, ReplayArgs(t),
                       [weights |-> weights, hiddenCs |-> hiddenCs, hiddenCounts |-> hiddenCounts])
    /\ it' = it + 1
    /\ pc' = IF it + 1 < historyIters THEN "learn" ELSE "idle"
    /\ UNCHANGED <<historySize, historySamples, call, stepCount, recent, oob, build>>
    /\ UNCHANGED <<scVars, mcVars, ioVars, pureVars>>

Step ==
    \E args \in StepArgs, learnEnabled \in BOOLEAN :
        StepForward(args.inputCs, args.hiddenCs, args.feedBackCs, learnEnabled)

\* The input CSDRs (one buffer per visible layer) the caller passes to the
\* SparseCoder.
ScInputs ==
    { <<Buf(<<0, 1, 1>>), Buf(<<0>>), Buf(<<1, 0, 0>>)>>,
      <<Buf(<<1, 0, 1>>), Buf(<<1>>), Buf(<<0, 1, 1>>)>> }

\* The weights SparseCoder::init draws from [0.99, 1.0): every weight the
\* same, or the weights spread over the range by address.
ScInitWeights ==
    { [vli \in ScLayers |-> [k \in 0..(scWeightsSize(vli) - 1) |-> 995]],
      [vli \in ScLayers |-> [k \in 0..(scWeightsSize(vli) - 1) |-> 990 + ((k * 7) % 10)]] }

\* The states cs._rng can be in when a kernel is handed it.
ScRngs == {0, 1}

\* The values of the public field _alpha: the constructor's 0.1, or 0
\* assigned by the caller.
ScAlphas == {<<1, 10>>, <<0, 1>>}

\* SparseCoder::createRandom(cs, hiddenSize, visibleLayerDescs).
createRandom ==
    /\ scAlpha \in ScAlphas
    /\ scWeights \in ScInitWeights
    /\ scHiddenCs = ZeroBuffer(scNumHiddenColumns)
    /\ scHiddenActivations = ZeroBuffer(scNumHidden)
    /\ scReconCs = [vli \in ScLayers |-> ZeroBuffer(scNumVisibleColumns(vli))]
    /\ scPc = "idle"
    /\ scCall = << >>
    /\ scIt = 0
    /\ scVli = 0
    /\ scCalls = 0

\* The program has constructed no SparseCoder.
NoSparseCoder ==
    /\ scAlpha = <<0, 1>>
    /\ scWeights = << >>
    /\ scHiddenCs = << >>
    /\ scHiddenActivations = << >>
    /\ scReconCs = << >>
    /\ scPc = "none"
    /\ scCall = << >>
    /\ scIt = 0
    /\ scVli = 0
    /\ scCalls = 0

\* The program has constructed no Actor.
NoActor ==
    /\ weights = << >>
    /\ hiddenCs = << >>
    /\ hiddenCounts = << >>
    /\ historySize = 0
    /\ historySamples = << >>
    /\ pc = "none"
    /\ call = NoCall
    /\ it = 0
    /\ stepCount = 0
    /\ recent = << >>
    /\ learnLog = << >>
    /\ oob = FALSE
    /\ build = "none"

\* The engine's buffers, as the kernels take them.
ScState ==
    [weights |-> scWeights, hiddenCs |-> scHiddenCs,
     hiddenActivations |-> scHiddenActivations, reconCs |-> scReconCs]

\* The buffers a kernel pass returns become the engine's.
ScBecomes(c) ==
    /\ scWeights' = c.weights
    /\ scHiddenCs' = c.hiddenCs
    /\ scHiddenActivations' = c.hiddenActivations
    /\ scReconCs' = c.reconCs

\* SparseCoder::activate(cs, visibleCs): entry of the iteration loop.
ScActivate(visibleCs) ==
    /\ scPc = "idle"
    /\ scCalls < MaxCalls
    /\ scCall' = visibleCs
    /\ scCalls' = scCalls + 1
    /\ scIt' = 0
    /\ scVli' = 0
    /\ scPc' = IF 0 < explainIters THEN "forward" ELSE "idle"
    /\ UNCHANGED <<scWeights, scHiddenCs, scHiddenActivations, scReconCs, scAlpha>>
    /\ UNCHANGED <<actorVars, mcVars, ioVars, pureVars>>

\* activate, iteration scIt: the forward pass over the hidden columns.
ScForwardStep ==
    /\ scPc = "forward"
    /\ \E rng \in ScRngs : ScBecomes(scForwardPass(1, rng, ScState, scCall, scIt = 0))
    /\ scVli' = 1
    /\ scPc' = IF 1 <= Len(scVisibleLayerDescs) THEN "backward"
               ELSE IF scIt + 1 < explainIters THEN "forward" ELSE "idle"
    /\ scIt' = IF 1 <= Len(scVisibleLayerDescs) THEN scIt ELSE scIt + 1
    /\ UNCHANGED <<scCall, scCalls, scAlpha>>
    /\ UNCHANGED <<actorVars, mcVars, ioVars, pureVars>>

\* activate, iteration scIt: the backward pass of layer scVli.
ScBackwardStep ==
    /\ scPc = "backward"
    /\ \E rng \in ScRngs : ScBecomes(scBackwardPass(1, rng, ScState, scVli))
    /\ IF scVli < Len(scVisibleLayerDescs)
       THEN /\ scVli' = scVli + 1
            /\ UNCHANGED <<scIt, scPc>>
       ELSE /\ scVli' = 0
            /\ scIt' = scIt + 1
            /\ scPc' = IF scIt + 1 < explainIters THEN "forward" ELSE "idle"
    /\ UNCHANGED <<scCall, scCalls, scAlpha>>
    /\ UNCHANGED <<actorVars, mcVars, ioVars, pureVars>>

\* SparseCoder::learn(cs, visibleCs).
ScLearn(visibleCs) ==
    /\ scPc = "idle"
    /\ scCalls < MaxCalls
    /\ \E rng \in ScRngs : ScBecomes(scLearnLayers(1, rng, ScState, visibleCs))
    /\ scCall' = visibleCs
    /\ scCalls' = scCalls + 1
    /\ UNCHANGED <<scPc, scIt, scVli, scAlpha>>
    /\ UNCHANGED <<actorVars, mcVars, ioVars, pureVars>>

\* CSDRs a caller may also pass, for neither activate nor learn looks at the
\* number of CSDRs or at their lengths: a first CSDR one element too long,
\* followed by one CSDR more than there are visible layers.
ScUncheckedInputs ==
    { <<Buf(<<0, 1, 1, 1>>), Buf(<<0>>), Buf(<<1, 0, 0>>), Buf(<<1>>)>> }

Activate == \E visibleCs \in ScInputs \cup ScUncheckedInputs : ScActivate(visibleCs)

Learn == \E visibleCs \in ScInputs \cup ScUncheckedInputs : ScLearn(visibleCs)

\* The input CSDRs and rewards the caller passes to the Monte-Carlo Actor.
McStepArgs ==
    { [visibleCs |-> <<Buf(<<0, 1>>)>>, reward |-> 0],
      [visibleCs |-> <<Buf(<<1, 1>>)>>, reward |-> Scale] }

\* A history sample as createRandom allocates it.  storedAt is the number of
\* the call of step that last filled the sample (0: never).
McNewSample ==
    [visibleCs |-> [vli \in McLayers |-> ZeroBuffer(mcNumVisibleColumns(vli))],
     hiddenCs |-> ZeroBuffer(mcNumHiddenColumns),
     reward |-> 0,
     storedAt |-> 0]

\* The action weights Actor::init draws from [-0.0001, 0.0001): every weight
\* is 0 units, or the weights of odd addresses are -1 unit.
McInitActionWeights ==
    { [vli \in McLayers |-> [k \in 0..(mcWeightsSizeAction(vli) - 1) |-> 0]],
      [vli \in McLayers |-> [k \in 0..(mcWeightsSizeAction(vli) - 1) |-> -(k % 2)]] }

\* Actor::createRandom(cs, hiddenSize, historyCapacity, visibleLayerDescs).
mcCreateRandom ==
    /\ mcValueWeights = [vli \in McLayers |-> ZeroBuffer(mcWeightsSizeValue(vli))]
    /\ mcActionWeights \in McInitActionWeights
    /\ mcHiddenCs = ZeroBuffer(mcNumHiddenColumns)
    /\ mcHiddenValues = ZeroBuffer(mcNumHiddenColumns)
    /\ mcHistorySize = 0
    /\ \E historyCapacity \in 1..MaxCapacity :
            mcHistorySamples = [i \in 0..(historyCapacity - 1) |-> McNewSample]
    /\ mcPc = "idle"
    /\ mcSteps = 0

\* The program has constructed no Monte-Carlo Actor.
NoMcActor ==
    /\ mcValueWeights = << >>
    /\ mcActionWeights = << >>
    /\ mcHiddenCs = << >>
    /\ mcHiddenValues = << >>
    /\ mcHistorySize = 0
    /\ mcHistorySamples = << >>
    /\ mcPc = "none"
    /\ mcSteps = 0

\* q of step: the rewards of samples size-1 .. 1, discounted by gamma^(t-1).
RECURSIVE mcQ(_, _)
mcQ(hs, t) ==
    IF t < 1 THEN 0
    ELSE (hs[t].reward * mcPow(mcGamma, t - 1)) \div Scale + mcQ(hs, t - 1)

\* The buffers a kernel pass returns become the Monte-Carlo Actor's.
McBecomes(n) ==
    /\ mcValueWeights' = n.valueWeights
    /\ mcActionWeights' = n.actionWeights
    /\ mcHiddenCs' = n.hiddenCs
    /\ mcHiddenValues' = n.hiddenValues

\* step, last part: the history is hs, of size samples; learn when enabled.
McStepLearn(m, hs, size, learnEnabled) ==
    /\ mcHistorySize' = size
    /\ mcHistorySamples' = hs
    /\ McBecomes(IF learnEnabled /\ size > 1
                 THEN mcLearnPass(1, m, hs[0].visibleCs, hs[0].hiddenCs,
                                  mcQ(hs, size - 1), mcPow(mcGamma, size - 1))
                 ELSE m)

\* step, middle part: the newest sample s is filled.
McStepStore(m, rotated, size, s, visibleCs, reward, learnEnabled) ==
    McStepLearn(m,
                [rotated EXCEPT ![size - 1] =
                    [visibleCs |-> [vli \in McLayers |->
                                      copyInt(mcNumVisibleColumns(vli), visibleCs[vli], s.visibleCs[vli])],
                     hiddenCs |-> copyInt(mcNumHiddenColumns, m.hiddenCs, s.hiddenCs),
                     reward |-> reward,
                     storedAt |-> mcSteps + 1]],
                size, learnEnabled)

\* step, after forward: the history is rotated when full, else it grows.
McStepRotate(m, rotated, size, visibleCs, reward, learnEnabled) ==
    McStepStore(m, rotated, size, rotated[size - 1], visibleCs, reward, learnEnabled)

\* Actor::step(cs, visibleCs, reward, learnEnabled) of the Monte-Carlo Actor.
McStepCall(visibleCs, reward, learnEnabled, explore) ==
    /\ mcPc = "idle"
    /\ mcSteps < MaxMcSteps
    /\ McStepRotate(mcForwardPass(1, [valueWeights |-> mcValueWeights,
                                      actionWeights |-> mcActionWeights,
                                      hiddenCs |-> mcHiddenCs, hiddenValues |-> mcHiddenValues],
                                  visibleCs, explore),
                    IF mcHistorySize = Size(mcHistorySamples)
                    THEN Rotate(mcHistorySamples) ELSE mcHistorySamples,
                    IF mcHistorySize < Size(mcHistorySamples)
                    THEN mcHistorySize + 1 ELSE mcHistorySize,
                    visibleCs, reward, learnEnabled)
    /\ mcSteps' = mcSteps + 1
    /\ UNCHANGED mcPc
    /\ UNCHANGED <<actorVars, scVars, ioVars, pureVars>>

McStep ==
    \E args \in McStepArgs, learnEnabled \in BOOLEAN,
       explore \in [0..(mcNumHiddenColumns - 1) -> -1..(mcHiddenSize.z - 1)] :
        McStepCall(args.visibleCs, args.reward, learnEnabled, explore)

(***************************************************************************)
(* Persistence.  A stream is a sequence of 4-byte words; a float is stored *)
(* as its fixed-point value.  A reader is [pos, fail]: the index of the    *)
(* next word and the stream's fail bit; once the fail bit is set every     *)
(* later read stores nothing.                                              *)
(***************************************************************************)
NewReader == [pos |-> 1, fail |-> FALSE]

\* The reader after is.read of n words.
Advance(in, r, n) ==
    IF r.fail THEN r
    ELSE IF r.pos + n - 1 <= Len(in) THEN [pos |-> r.pos + n, fail |-> FALSE]
    ELSE [pos |-> Len(in) + 1, fail |-> TRUE]

\* The words is.read of n words stores over old: those the stream still
\* holds; the others keep their old value.
ReadWords(in, r, n, old) ==
    [i \in 1..n |-> IF ~r.fail /\ r.pos + i - 1 <= Len(in) THEN in[r.pos + i - 1] ELSE old[i]]

\* writeBufferToStream: the length, then the elements.
writeBufferToStream(buf) == <<Size(buf)>> \o [i \in 1..Size(buf) |-> buf[i - 1]]

\* readBufferFromStream: the buffer is resized to the length read, then
\* filled; a failed read of the length leaves the buffer as it was.
readBufferFromStream(in, r, old) ==
    IF r.fail \/ r.pos > Len(in) THEN [buf |-> old, r |-> Advance(in, r, 1)]
    ELSE LET size == in[r.pos]
             r1 == Advance(in, r, 1)
             w == ReadWords(in, r1, size, [i \in 1..size |-> 0])
         IN  [buf |-> [i \in 0..(size - 1) |-> w[i + 1]], r |-> Advance(in, r1, size)]

\* Concatenation of a sequence of sequences.
RECURSIVE Flatten(_)
Flatten(ss) == IF ss = << >> THEN << >> ELSE Head(ss) \o Flatten(Tail(ss))

\* A float hs / vs as a fixed-point word.
Ratio(num, den) == (num * Scale) \div den

\* The words SparseCoder::writeToStream writes for visible layer vli.
scWriteLayer(c, vli) ==
    LET vld == scVisibleLayerDescs[vli]
        rr == reverseRadii(vli)
    IN  <<vld.size.x, vld.size.y, vld.size.z, vld.radius,
          Ratio(scHiddenSize.x, vld.size.x), Ratio(scHiddenSize.y, vld.size.y),
          Ratio(vld.size.x, scHiddenSize.x), Ratio(vld.size.y, scHiddenSize.y),
          rr.x, rr.y>> \o writeBufferToStream(c.weights[vli])

\* SparseCoder::writeToStream(os).
scWriteToStream(c) ==
    <<scHiddenSize.x, scHiddenSize.y, scHiddenSize.z, Mul(scAlpha, Scale), explainIters>>
    \o writeBufferToStream(c.hiddenCs)
    \o <<Len(scVisibleLayerDescs)>>
    \o Flatten([vli \in ScLayers |-> scWriteLayer(c, vli)])

\* A default-constructed VisibleLayerDesc and VisibleLayer.
NewLayer ==
    [desc |-> <<4, 4, 16, 2>>, visibleToHidden |-> <<0, 0>>, hiddenToVisible |-> <<0, 0>>,
     reverseRadii |-> <<0, 0>>, weights |-> << >>, reconCs |-> << >>]

\* A default-constructed SparseCoder.
NewSparseCoder ==
    [hiddenSize |-> <<0, 0, 0>>, alpha |-> Mul(<<1, 10>>, Scale), explainIters |-> 4,
     hiddenCs |-> << >>, hiddenActivations |-> << >>, layers |-> << >>]

\* scReadLayer reading _hiddenToVisible before _visibleToHidden.
scReadLayerSwapped(in, r) ==
    LET desc == ReadWords(in, r, 4, NewLayer.desc)
        r1 == Advance(in, r, 4)
        h2v == ReadWords(in, r1, 2, NewLayer.hiddenToVisible)
        r2 == Advance(in, r1, 2)
        v2h == ReadWords(in, r2, 2, NewLayer.visibleToHidden)
        r3 == Advance(in, r2, 2)
        rr == ReadWords(in, r3, 2, NewLayer.reverseRadii)
        r4 == Advance(in, r3, 2)
        w == readBufferFromStream(in, r4, NewLayer.weights)
    IN  [layer |-> [desc |-> desc, visibleToHidden |-> v2h, hiddenToVisible |-> h2v,
                    reverseRadii |-> rr, weights |-> w.buf,
                    reconCs |-> ZeroBuffer(desc[1] * desc[2])],
         r |-> w.r]

\* The body of the layer loop of SparseCoder::readFromStream: the layer
\* read from the reader r, and the reader after it.
scReadLayer(in, r) ==
    LET desc == ReadWords(in, r, 4, NewLayer.desc)
        r1 == Advance(in, r, 4)
        v2h == ReadWords(in, r1, 2, NewLayer.visibleToHidden)
        r2 == Advance(in, r1, 2)
        h2v == ReadWords(in, r2, 2, NewLayer.hiddenToVisible)
        r3 == Advance(in, r2, 2)
        rr == ReadWords(in, r3, 2, NewLayer.reverseRadii)
        r4 == Advance(in, r3, 2)
        w == readBufferFromStream(in, r4, NewLayer.weights)
    IN  [layer |-> [desc |-> desc, visibleToHidden |-> v2h, hiddenToVisible |-> h2v,
                    reverseRadii |-> rr, weights |-> w.buf,
                    reconCs |-> ZeroBuffer(desc[1] * desc[2])],
         r |-> w.r]

\* The layer loop of SparseCoder::readFromStream over n layers.
RECURSIVE scReadLayers(_, _, _)
scReadLayers(in, r, n) ==
    IF n <= 0 THEN [layers |-> << >>, r |-> r]
    ELSE LET first == scReadLayer(in, r)
             rest == scReadLayers(in, first.r, n - 1)
         IN  [layers |-> <<first.layer>> \o rest.layers, r |-> rest.r]

\* SparseCoder::readFromStream(is) into a default-constructed instance.
\* indeterminate is the value the local numVisibleLayers holds when the read
\* into it fails; a negative count makes resize throw std::length_error.
scReadFromStream(in, indeterminate) ==
    LET r0 == NewReader
        hs == ReadWords(in, r0, 3, NewSparseCoder.hiddenSize)
        r1 == Advance(in, r0, 3)
        al == ReadWords(in, r1, 1, <<NewSparseCoder.alpha>>)
        r2 == Advance(in, r1, 1)
        ei == ReadWords(in, r2, 1, <<NewSparseCoder.explainIters>>)
        r3 == Advance(in, r2, 1)
        hc == readBufferFromStream(in, r3, NewSparseCoder.hiddenCs)
        r4 == Advance(in, hc.r, 1)
        numVisibleLayers == IF r4.fail THEN indeterminate ELSE in[hc.r.pos]
        ls == scReadLayers(in, r4, numVisibleLayers)
        thrown == numVisibleLayers < 0
    IN  [hiddenSize |-> hs, alpha |-> al[1], explainIters |-> ei[1], hiddenCs |-> hc.buf,
         hiddenActivations |-> ZeroBuffer(hs[1] * hs[2] * hs[3]),
         layers |-> IF thrown THEN << >> ELSE ls.layers,
         consumed |-> (IF thrown THEN r4.pos ELSE ls.r.pos) - 1,
         failed |-> IF thrown THEN r4.fail ELSE ls.r.fail,
         thrown |-> thrown]

\* The elements of a finite set of tuples of naturals, in lexicographic
\* order.
RECURSIVE Sorted(_)
Sorted(S) ==
    IF S = {} THEN << >>
    ELSE LET Before(a, b) ==
                 \E k \in 1..Len(a) : a[k] < b[k] /\ \A j \in 1..(k - 1) : a[j] = b[j]
             m == CHOOSE a \in S : \A b \in S \ {a} : Before(a, b)
         IN  <<m>> \o Sorted(S \ {m})

\* writeSMToStream: the number of stored weights, then each weight's row,
\* visible column, visible code and value.
writeSMToStream(W) ==
    LET keys == Sorted(DOMAIN W)
    IN  <<Len(keys)>> \o Flatten([k \in 1..Len(keys) |->
                                    <<keys[k][1], keys[k][2], keys[k][3], W[keys[k]]>>])

\* readSMFromStream: the matrix of the weights the stream holds; a failed
\* read of the count leaves the matrix as it was.
readSMFromStream(in, r, old) ==
    IF r.fail \/ r.pos > Len(in) THEN [sm |-> old, r |-> Advance(in, r, 1)]
    ELSE LET n == in[r.pos]
             r1 == Advance(in, r, 1)
             w == ReadWords(in, r1, 4 * n, [i \in 1..(4 * n) |-> 0])
             key(k) == <<w[4 * k - 3], w[4 * k - 2], w[4 * k - 1]>>
         IN  [sm |-> [e \in {key(k) : k \in 1..n} |->
                        w[4 * (CHOOSE k \in 1..n : key(k) = e)]],
              r |-> Advance(in, r1, 4 * n)]

\* The words Actor::writeToStream writes for history sample t.
writeSample(smp) ==
    Flatten([vli \in Layers |-> writeBufferToStream(smp.inputCs[vli])])
    \o writeBufferToStream(smp.hiddenCs) \o writeBufferToStream(smp.feedBackCs)

\* The words of the history loop of Actor::writeToStream.
writeHistory == Flatten([t \in 1..Capacity |-> writeSample(historySamples[t - 1])])

\* Actor::writeToStream(os).
writeToStream ==
    <<hiddenSize.x, hiddenSize.y, hiddenSize.z,
      Mul(alpha, Scale), Mul(gamma, Scale), Mul(gap, Scale), historyIters, historySize>>
    \o writeBufferToStream(hiddenCs) \o writeBufferToStream(hiddenCounts)
    \o <<Len(visibleLayerDescs)>>
    \o Flatten([vli \in Layers |->
            <<visibleLayerDescs[vli].size.x, visibleLayerDescs[vli].size.y,
              visibleLayerDescs[vli].size.z, visibleLayerDescs[vli].radius>>
            \o writeSMToStream(weights[vli])])
    \o <<Capacity>>
    \o writeHistory

\* A default-constructed Actor.
NewActor ==
    [hiddenSize |-> <<0, 0, 0>>, alpha |-> Mul(alpha, Scale), gamma |-> Mul(gamma, Scale),
     gap |-> Mul(gap, Scale), historyIters |-> historyIters, historySize |-> 0,
     hiddenCs |-> << >>, hiddenCounts |-> << >>, layers |-> << >>, historySamples |-> << >>]

\* The layer loop of Actor::readFromStream over n layers.
RECURSIVE readLayers(_, _, _)
readLayers(in, r, n) ==
    IF n <= 0 THEN [layers |-> << >>, r |-> r]
    ELSE LET desc == ReadWords(in, r, 4, NewLayer.desc)
             w == readSMFromStream(in, Advance(in, r, 4), << >>)
             rest == readLayers(in, w.r, n - 1)
         IN  [layers |-> <<[desc |-> desc, weights |-> w.sm]>> \o rest.layers, r |-> rest.r]

\* The buffers of the per-layer loop of a history sample: n input CSDRs.
RECURSIVE readInputCs(_, _, _)
readInputCs(in, r, n) ==
    IF n <= 0 THEN [inputCs |-> << >>, r |-> r]
    ELSE LET b == readBufferFromStream(in, r, << >>)
             rest == readInputCs(in, b.r, n - 1)
         IN  [inputCs |-> <<b.buf>> \o rest.inputCs, r |-> rest.r]

\* The history loop of Actor::readFromStream over n samples of an Actor
\* with nl visible layers.
RECURSIVE readSamples(_, _, _, _)
readSamples(in, r, n, nl) ==
    IF n <= 0 THEN [samples |-> << >>, r |-> r]
    ELSE LET i == readInputCs(in, r, nl)
             h == readBufferFromStream(in, i.r, << >>)
             f == readBufferFromStream(in, h.r, << >>)
             rest == readSamples(in, f.r, n - 1, nl)
         IN  [samples |-> <<[inputCs |-> i.inputCs, hiddenCs |-> h.buf, feedBackCs |-> f.buf]>>
                          \o rest.samples,
              r |-> rest.r]

\* Actor::readFromStream(is) into a default-constructed instance.
\* indeterminate is the value the locals numVisibleLayers and
\* numHistorySamples hold when the read into them fails; a negative count
\* makes resize throw std::length_error.
readFromStream(in, indeterminate) ==
    LET r0 == NewReader
        hs == ReadWords(in, r0, 3, NewActor.hiddenSize)
        r1 == Advance(in, r0, 3)
        hp == ReadWords(in, r1, 5, <<NewActor.alpha, NewActor.gamma, NewActor.gap,
                                     NewActor.historyIters, NewActor.historySize>>)
        r2 == Advance(in, Advance(in, Advance(in, Advance(in, Advance(in, r1, 1), 1), 1), 1), 1)
        hc == readBufferFromStream(in, r2, NewActor.hiddenCs)
        hn == readBufferFromStream(in, hc.r, NewActor.hiddenCounts)
        r3 == Advance(in, hn.r, 1)
        numVisibleLayers == IF r3.fail THEN indeterminate ELSE in[hn.r.pos]
        ls == readLayers(in, r3, numVisibleLayers)
        r4 == Advance(in, ls.r, 1)
        numHistorySamples == IF r4.fail THEN indeterminate ELSE in[ls.r.pos]
        ss == readSamples(in, r4, numHistorySamples, Len(ls.layers))
        thrownLayers == numVisibleLayers < 0
        thrown == thrownLayers \/ numHistorySamples < 0
        last == IF thrownLayers THEN r3 ELSE IF thrown THEN r4 ELSE ss.r
    IN  [hiddenSize |-> hs, alpha |-> hp[1], gamma |-> hp[2], gap |-> hp[3],
         historyIters |-> hp[4], historySize |-> hp[5],
         hiddenCs |-> hc.buf, hiddenCounts |-> hn.buf,
         layers |-> IF thrownLayers THEN << >> ELSE ls.layers,
         historySamples |-> IF thrown THEN << >> ELSE ss.samples,
         consumed |-> last.pos - 1, failed |-> last.fail, thrown |-> thrown]

\* No instance has been read yet.
NotRestored == [engine |-> "none"]

\* The streams a later process hands to readFromStream when the words s were
\* written and word k holds the number of elements of the last loop (the
\* visible layers of a SparseCoder, the history samples of an Actor): s
\* itself, s cut short (empty, after the count, before the last word), and s
\* with the count lowered by one.
Streams(s, k) ==
    {s, SubSeq(s, 1, 0), SubSeq(s, 1, k), SubSeq(s, 1, Len(s) - 1), [s EXCEPT ![k] = s[k] - 1]}

\* The values an int local holds when nothing was read into it.
Indeterminates == {-1, 0, 1}

\* The process saves its SparseCoder as its last act.
ScSave ==
    /\ scPc = "idle"
    /\ scCalls <= MaxSaveAt
    /\ stream' = scWriteToStream(ScState)
    /\ scPc' = "saved"
    /\ UNCHANGED <<scWeights, scHiddenCs, scHiddenActivations, scReconCs,
                   scCall, scIt, scVli, scCalls, scAlpha, restored>>
    /\ UNCHANGED <<actorVars, mcVars, pureVars>>

\* A later process reads a stream into a default-constructed SparseCoder.
ScLoad ==
    /\ scPc = "saved"
    /\ restored = NotRestored
    /\ \E in \in Streams(stream, 7 + Size(scHiddenCs)), indeterminate \in Indeterminates :
            restored' = [engine |-> "SparseCoder", in |-> in,
                         state |-> scReadFromStream(in, indeterminate)]
    /\ UNCHANGED <<actorVars, scVars, mcVars, stream, pureVars>>

\* The process saves its Actor as its last act.
Save ==
    /\ pc = "idle"
    /\ stepCount <= MaxSaveAt
    /\ stream' = writeToStream
    /\ pc' = "saved"
    /\ UNCHANGED <<weights, hiddenCs, hiddenCounts, historySize, historySamples,
                   call, it, stepCount, recent, learnLog, oob, build, restored>>
    /\ UNCHANGED <<scVars, mcVars, pureVars>>

\* A later process reads a stream into a default-constructed Actor.
Load ==
    /\ pc = "saved"
    /\ restored = NotRestored
    /\ \E in \in Streams(stream, Len(stream) - Len(writeHistory)),
          indeterminate \in Indeterminates :
            restored' = [engine |-> "Actor", in |-> in,
                         state |-> readFromStream(in, indeterminate)]
    /\ UNCHANGED <<actorVars, scVars, mcVars, stream, pureVars>>

\* The program constructs one engine -- an Actor, a SparseCoder or a
\* Monte-Carlo Actor -- and drives it.
\* No kernel is exercised on its own.
NoLoneActor == lone = [weights |-> << >>, init |-> << >>, updates |-> 0, rewarded |-> {}]

NoGeometry == geom = [made |-> FALSE] /\ probe = [op |-> "none"]

NoKernelProbe == NoLoneActor /\ NoGeometry

Init ==
    /\ \/ initRandom /\ NoSparseCoder /\ NoMcActor
       \/ createRandom /\ NoActor /\ NoMcActor
       \/ mcCreateRandom /\ NoActor /\ NoSparseCoder
    /\ stream = << >>
    /\ restored = NotRestored
    /\ NoKernelProbe

Next ==
    \/ Step \/ StepAddSample \/ StepFault \/ StepLearn
    \/ Activate \/ ScForwardStep \/ ScBackwardStep \/ Learn
    \/ McStep
    \/ Save \/ Load \/ ScSave \/ ScLoad

vars == <<actorVars, scVars, mcVars, ioVars, pureVars>>

Spec == Init /\ [][Next]_vars

(***************************************************************************)
(* An Actor of one hidden column of depth 1 over one visible layer, and    *)
(* its learn kernel applied to sample pairs whose feedback code is the     *)
(* recorded action.                                                        *)
(***************************************************************************)
loneHiddenSize == [x |-> 1, y |-> 1, z |-> 1]

loneVisibleLayerDesc == [size |-> [x |-> 2, y |-> 1, z |-> 2], radius |-> 1]

\* initSMLocalRF for the only hidden column: the visible columns of its
\* receptive field, clamped to the grid.
loneField ==
    LET vld == loneVisibleLayerDesc
        center == project([x |-> 0, y |-> 0], loneHiddenSize, vld.size)
    IN  {address2C([x |-> vx, y |-> vy], vld.size) :
            vx \in Max2(0, center.x - vld.radius)..Min2(vld.size.x - 1, center.x + vld.radius),
            vy \in Max2(0, center.y - vld.radius)..Min2(vld.size.y - 1, center.y + vld.radius)}

\* _hiddenCounts[0] = counts(0) / vld._size.z.
loneHiddenCount == (Cardinality(loneField) * loneVisibleLayerDesc.size.z) \div loneVisibleLayerDesc.size.z

\* The weights weightDist draws from [-0.0001, 0), one per nonzero entry
\* <<visible column, visible code>> of the only row.
LoneInitWeights ==
    { [e \in loneField \X (0..(loneVisibleLayerDesc.size.z - 1)) |-> -1],
      [e \in loneField \X (0..(loneVisibleLayerDesc.size.z - 1)) |-> IF e[2] = 0 THEN 0 ELSE -1] }

\* The input CSDRs of the samples replayed.
LoneInputs == { Buf(<<0, 0>>), Buf(<<1, 1>>), Buf(<<0, 1>>) }

\* multiplyOHVs on the only row, divided by std::max(1, _hiddenCounts[0]):
\* the normalised support of action code 0 under the input codes cs.
loneSupport(W, cs) ==
    SumOver([vi \in loneField |-> W[<<vi, cs[vi]>>]], loneField) \div Max2(1, loneHiddenCount)

\* Actor::learn moving the weights against the PAL error.
loneLearnDescending(W, inputCs, hiddenCsPrev, feedBackCsPrev, inputCsPrev) ==
    LET targetC == hiddenCsPrev[0]
        sum == loneSupport(W, inputCs)
        sumPrev == loneSupport(W, inputCsPrev)
        maxActivation == Max2(MinActivation, sum)
        maxActivationPrev == Max2(MinActivation, sumPrev)
        reward == IF targetC = feedBackCsPrev[0] THEN Scale ELSE 0
        dQ == reward + Mul(gamma, maxActivation) - sumPrev
        dAdv == dQ - Mul(gap, maxActivationPrev - sumPrev)
        dPAL == Max2(dAdv, dQ - Mul(gap, maxActivation - sum))
        delta == Mul(alpha, dPAL)
    IN  [e \in DOMAIN W |-> IF inputCsPrev[e[1]] = e[2] THEN W[e] - delta ELSE W[e]]

\* Actor::learn at the only hidden column: the loop over hc runs once, with
\* hc = targetC = 0, so nextQActionPrev = sum and qActionPrev = sumPrev.
loneLearn(W, inputCs, hiddenCsPrev, feedBackCsPrev, inputCsPrev) ==
    LET targetC == hiddenCsPrev[0]
        sum == loneSupport(W, inputCs)
        sumPrev == loneSupport(W, inputCsPrev)
        maxActivation == Max2(MinActivation, sum)
        maxActivationPrev == Max2(MinActivation, sumPrev)
        reward == IF targetC = feedBackCsPrev[0] THEN Scale ELSE 0
        dQ == reward + Mul(gamma, maxActivation) - sumPrev
        dAdv == dQ - Mul(gap, maxActivationPrev - sumPrev)
        dPAL == Max2(dAdv, dQ - Mul(gap, maxActivation - sum))
        delta == Mul(alpha, dPAL)
    IN  [e \in DOMAIN W |-> IF inputCsPrev[e[1]] = e[2] THEN W[e] + delta ELSE W[e]]

\* Actor::initRandom for the one-column Actor.
loneInitRandom ==
    \E W \in LoneInitWeights :
        lone = [weights |-> W, init |-> W, updates |-> 0, rewarded |-> {}]

\* One replay update of step: learn on a pair of samples (s, sPrev) whose
\* recorded action and feedback code are both 0.
LoneReplay ==
    /\ DOMAIN lone.weights # {}
    /\ lone.updates < MaxLoneUpdates
    /\ \E inputCs \in LoneInputs, inputCsPrev \in LoneInputs :
            lone' = [lone EXCEPT
                        !.weights = loneLearn(@, inputCs, Buf(<<0>>), Buf(<<0>>), inputCsPrev),
                        !.updates = @ + 1,
                        !.rewarded = @ \cup {inputCsPrev}]
    /\ UNCHANGED <<actorVars, scVars, mcVars, ioVars, geom, probe>>

(***************************************************************************)
(* The projections, search windows and weight addresses of a SparseCoder   *)
(* layer, for hidden and visible extents and radii drawn from bounded sets. *)
(***************************************************************************)
\* The extents of a grid: depth 2, up to MaxExtent columns by up to 2.
Extents == {[x |-> ex, y |-> ey, z |-> 2] : ex \in 1..MaxExtent, ey \in 1..2}

\* createRandom(cs, hiddenSize, visibleLayerDescs) as far as the geometry of
\* one layer goes: the extents and the radius the caller passes.
geomCreateRandom ==
    \E hs \in Extents, vs \in Extents, r \in 0..MaxRadius :
        /\ geom = [made |-> TRUE, hiddenSize |-> hs, vld |-> [size |-> vs, radius |-> r]]
        /\ probe = [op |-> "none"]

\* The four corner columns of a grid.
Corners(size) == {[x |-> cx, y |-> cy] : cx \in {0, size.x - 1}, cy \in {0, size.y - 1}}

\* project(pos, _hiddenToVisible) of a corner column of the hidden grid, and
\* project(., _visibleToHidden) of the result.
ProjectCorner ==
    /\ geom.made /\ probe.op = "none"
    /\ \E pos \in Corners(geom.hiddenSize) :
            LET there == project(pos, geom.hiddenSize, geom.vld.size)
            IN  probe' = [op |-> "project", pos |-> pos, there |-> there,
                          back |-> project(there, geom.vld.size, geom.hiddenSize)]
    /\ UNCHANGED <<actorVars, scVars, mcVars, ioVars, lone, geom>>

\* backward (and learn) at visible column pos: the hidden columns the loops
\* look at, and those that pass the containment check.
BackwardAt ==
    /\ geom.made /\ probe.op = "none"
    /\ \E pos \in Columns(geom.vld.size) :
            LET window == backwardWindow(geom.hiddenSize, geom.vld, pos)
            IN  probe' = [op |-> "backward", pos |-> pos, window |-> window,
                          visited |-> {h \in window : fieldHolds(geom.hiddenSize, geom.vld, h, pos)}]
    /\ UNCHANGED <<actorVars, scVars, mcVars, ioVars, lone, geom>>

\* One weight access of forward, at hidden unit (h, hc) for a visible
\* position v of its clamped field holding code vc, and the access backward
\* and learn make for the same units when h holds code hc.
WeightAccess ==
    /\ geom.made /\ probe.op = "none"
    /\ \E h \in Columns(geom.hiddenSize), hc \in 0..(geom.hiddenSize.z - 1),
          vc \in 0..(geom.vld.size.z - 1) :
            \E v \in forwardField(geom.hiddenSize, geom.vld, h) :
                probe' = [op |-> "access", h |-> h, hc |-> hc, v |-> v, vc |-> vc,
                          offset |-> fieldOffset(geom.hiddenSize, geom.vld, h, v),
                          forward |-> forwardAddress(geom.hiddenSize, geom.vld, h, hc, v, vc),
                          backward |-> backwardAddress(geom.hiddenSize, geom.vld, h, hc, v, vc),
                          held |-> fieldHolds(geom.hiddenSize, geom.vld, h, v)]
    /\ UNCHANGED <<actorVars, scVars, mcVars, ioVars, lone, geom>>

KernelInit ==
    /\ NoActor /\ NoSparseCoder /\ NoMcActor
    /\ stream = << >>
    /\ restored = NotRestored
    /\ \/ loneInitRandom /\ NoGeometry
       \/ geomCreateRandom /\ NoLoneActor

KernelNext ==
    \/ LoneReplay
    \/ ProjectCorner \/ BackwardAt \/ WeightAccess

KernelSpec == KernelInit /\ [][KernelNext]_vars

(***************************************************************************)
(* Properties of the Actor's history and of the replay loop.               *)
(***************************************************************************)
\* The triple a history sample holds in its own buffers.
SampleTriple(s) == <<s.inputCs, s.hiddenCs, s.feedBackCs>>

\* The triple passed to the current (or last) call of step.
CallTriple == <<call.inputCs, call.hiddenCs, call.feedBackCs>>

\* C1: after historyCapacity + k calls of step (k > 0) exactly historyCapacity
\* samples are retained and the sample at position i holds the triple
\* (inputCs, hiddenCs, feedbackCs) passed to step number k + i.
C1_HistoryRingHoldsLastTriples ==
    (pc = "idle" /\ stepCount > Capacity) =>
        /\ historySize = Capacity
        /\ \A i \in 0..(Capacity - 1) : SampleTriple(historySamples[i]) = recent[i + 1]

\* The part of C1 the code does keep: the input codes and the action codes
\* of the retained samples are those of the last historyCapacity calls.
HistoryRingInputsAndActions ==
    (pc = "idle" /\ stepCount > Capacity) =>
        /\ historySize = Capacity
        /\ \A i \in 0..(Capacity - 1) :
              /\ historySamples[i].inputCs = recent[i + 1][1]
              /\ historySamples[i].hiddenCs = recent[i + 1][2]

\* C2 (as claimed): in every replay update with sampled index t the target
\* action code of each hidden column is the action code recorded at that
\* column in sPrev = history[t].
C2_TargetFromPrevSample ==
    \A k \in 1..Len(learnLog) : \A i \in 0..(numHiddenColumns - 1) :
        learnLog[k].d[i].targetC = historySamples[learnLog[k].t].hiddenCs[i]

\* C2 (amended): in every replay update with sampled index t the target
\* action code of each hidden column is the action code recorded at that
\* column in s = history[t + 1].
C2_TargetFromNextSample ==
    \A k \in 1..Len(learnLog) : \A i \in 0..(numHiddenColumns - 1) :
        learnLog[k].d[i].targetC = historySamples[learnLog[k].t + 1].hiddenCs[i]

\* A replay update whose two samples record different action codes.
C2_Witness ==
    \E k \in 1..Len(learnLog) : \E i \in 0..(numHiddenColumns - 1) :
        historySamples[learnLog[k].t].hiddenCs[i] # historySamples[learnLog[k].t + 1].hiddenCs[i]

\* C3: every history sample owns an input-code buffer per visible layer of
\* the layer's column count, and a hidden-code and a feedback-code buffer of
\* the hidden column count, and no copy of step writes outside a buffer.
C3_SamplesPreallocated ==
    /\ \A i \in DOMAIN historySamples :
          /\ \A vli \in Layers : Size(historySamples[i].inputCs[vli]) = numVisibleColumns(vli)
          /\ Size(historySamples[i].hiddenCs) = numHiddenColumns
          /\ Size(historySamples[i].feedBackCs) = numHiddenColumns
    /\ ~oob

\* C4: every call of step stores its triple as the newest sample, at position
\* historySize - 1; at capacity only the sample at position 0 is discarded,
\* the others keeping their contents and order.
C4_StepStoresTriple ==
    [][(pc = "add" /\ pc' # "crashed") =>
          /\ SampleTriple(historySamples'[historySize' - 1]) = CallTriple
          /\ historySize = Capacity =>
                \A i \in 0..(Capacity - 2) : historySamples'[i] = historySamples[i + 1]
          /\ historySize < Capacity =>
                /\ historySize' = historySize + 1
                /\ \A i \in 0..(historySize - 1) : historySamples'[i] = historySamples[i]]_vars

\* C5: the replay update runs iff learnEnabled and historySize >= 3 after the
\* append; it then runs exactly historyIters times, each with an index t in
\* [0, historySize - 2], history[t] as sPrev and history[t + 1] as s, both
\* positions below historySize.
C5_ReplayGuardAndCount ==
    /\ pc = "learn" =>
          /\ call.learnEnabled /\ historySize >= 3
          /\ Len(learnLog) = it /\ it < historyIters
    /\ (pc = "idle" /\ stepCount > 0) =>
          Len(learnLog) = IF call.learnEnabled /\ historySize >= 3 THEN historyIters ELSE 0
    /\ \A k \in 1..Len(learnLog) :
          LET t == learnLog[k].t
          IN  /\ t \in 0..(historySize - 2)
              /\ t + 1 < historySize /\ historySize <= Capacity
              /\ learnLog[k].args.inputCsPrev = historySamples[t].inputCs
              /\ learnLog[k].args.inputCs = historySamples[t + 1].inputCs

\* A call of step that ran the replay update historyIters times on different
\* indices, and (at another time) one that skipped it with learning enabled.
C5_Witness ==
    /\ pc = "idle" /\ call.learnEnabled
    /\ Len(learnLog) = historyIters
    /\ \E j, k \in 1..Len(learnLog) : learnLog[j].t # learnLog[k].t

(***************************************************************************)
(* Properties of the Actor's kernels.                                      *)
(***************************************************************************)
\* The count-normalised support of code hc at hidden column i.
NormSupport(cs, i, hc) ==
    Support(weights, cs, ColumnPos(i), hc) \div Max2(1, hiddenCounts[i])

\* The greatest element of a finite set of integers.
SetMax(S) == CHOOSE m \in S : \A x \in S : m >= x

\* alpha * max(dQ - gap * (maxActivationPrev - qActionPrev),
\*             dQ - gap * (maxActivation - nextQActionPrev)) at hidden column
\* i for the samples s and sPrev and the target code targetC.
PALDelta(i, s, sPrev, targetC) ==
    LET reward == IF targetC = FeedBackView(s)[i] THEN Scale ELSE 0
        maxActivation == SetMax({NormSupport(s.inputCs, i, hc) : hc \in HiddenCodes})
        maxActivationPrev == SetMax({NormSupport(sPrev.inputCs, i, hc) : hc \in HiddenCodes})
        nextQActionPrev == NormSupport(s.inputCs, i, targetC)
        qActionPrev == NormSupport(sPrev.inputCs, i, targetC)
        dQ == reward + Mul(gamma, maxActivation) - qActionPrev
    IN  Mul(alpha, Max2(dQ - Mul(gap, maxActivationPrev - qActionPrev),
                        dQ - Mul(gap, maxActivation - nextQActionPrev)))

\* The weight of layer vli that connects hidden unit (hc, column i) to the
\* code cs holds at visible column vi.
WeightAt(W, vli, i, hc, vi, cs) == W[vli][<<i * hiddenSize.z + hc, vi, cs[vli][vi]>>]

\* C6: at every hidden column the value Actor::learn adds is
\* alpha * max(dQ - gap*(maxActivationPrev - qActionPrev),
\*             dQ - gap*(maxActivation - nextQActionPrev)),
\* dQ = reward + gamma*maxActivation - qActionPrev, reward being 1 iff targetC
\* is the code of s's feedback CSDR at the column.
C6_LearnAddsPALDelta ==
    [][pc = "learn" =>
        LET t == learnLog'[Len(learnLog')].t
            s == historySamples[t + 1]
            sPrev == historySamples[t]
        IN  \A i \in 0..(numHiddenColumns - 1) : \A vli \in Layers :
              \A vi \in RowField[vli][i * hiddenSize.z + s.hiddenCs[i]] :
                WeightAt(weights', vli, i, s.hiddenCs[i], vi, sPrev.inputCs)
                    = WeightAt(weights, vli, i, s.hiddenCs[i], vi, sPrev.inputCs)
                      + PALDelta(i, s, sPrev, s.hiddenCs[i])]_vars

\* A replay update with reward 1 at one column and reward 0 at another, the
\* two terms of the max differing in both, and a nonzero value added.
C6_Witness ==
    \E k \in 1..Len(learnLog) :
        /\ \E i \in 0..(numHiddenColumns - 1) :
              learnLog[k].d[i].reward = Scale /\ learnLog[k].d[i].delta # 0
        /\ \E i \in 0..(numHiddenColumns - 1) :
              learnLog[k].d[i].reward = 0 /\ learnLog[k].d[i].dPAL # learnLog[k].d[i].dQ

\* C7: one learn update changes only the weights connecting the unit
\* (targetC, column) to the visible codes active in sPrev's input CSDRs inside
\* the column's receptive field, by the same delta in every visible layer;
\* every other weight keeps its value.
C7_LearnFrame ==
    [][pc = "learn" =>
        LET e == learnLog'[Len(learnLog')]
            s == historySamples[e.t + 1]
            sPrev == historySamples[e.t]
        IN  \A vli \in Layers : \A el \in NonZeros(vli) :
              LET i == ColumnOfRow(el[1])
                  selected == /\ el[1] = i * hiddenSize.z + s.hiddenCs[i]
                              /\ el[2] \in RowField[vli][el[1]]
                              /\ sPrev.inputCs[vli][el[2]] = el[3]
              IN  weights'[vli][el] = weights[vli][el] + (IF selected THEN e.d[i].delta ELSE 0)]_vars

\* A replay update that added a nonzero delta at a column whose two samples
\* hold different input codes.
C7_Witness ==
    \E k \in 1..Len(learnLog) : \E i \in 0..(numHiddenColumns - 1) :
        /\ learnLog[k].d[i].delta # 0
        /\ learnLog[k].args.inputCs # learnLog[k].args.inputCsPrev

\* C8: the forward pass changes no weight, no hidden count and no history
\* sample, and running it again on the same input CSDRs changes nothing at
\* all: it emits the same action CSDR.
C8_ForwardPureIdempotent ==
    [][(pc = "idle" /\ pc' = "add") =>
        /\ weights' = weights
        /\ hiddenCounts' = hiddenCounts
        /\ historySamples' = historySamples /\ historySize' = historySize
        /\ LET a == [weights |-> weights', hiddenCs |-> hiddenCs', hiddenCounts |-> hiddenCounts']
           IN  ForwardPass(1, a, call'.inputCs) = a]_vars

\* The forward pass has run on learned weights and emitted an action CSDR
\* other than the initial one.
C8_Witness ==
    /\ pc = "add"
    /\ hiddenCs # ZeroBuffer(numHiddenColumns)
    /\ weights \notin InitWeights

\* C9: at every hidden column the forward pass emits the code whose summed
\* one-hot support over the visible layers is maximal, the lowest such code
\* when several share the maximum.
C9_ForwardArgmaxLowest ==
    pc = "add" =>
        \A i \in 0..(numHiddenColumns - 1) : \A hc \in HiddenCodes :
            LET S(c) == Support(weights, call.inputCs, ColumnPos(i), c)
            IN  /\ S(hiddenCs[i]) >= S(hc)
                /\ hc < hiddenCs[i] => S(hc) < S(hiddenCs[i])

\* The forward pass emitted the lowest code at a column where all codes tie
\* and a higher code at a column where that code alone is maximal.
C9_Witness ==
    /\ pc = "add"
    /\ \E i \in 0..(numHiddenColumns - 1) :
          /\ hiddenCs[i] = 0
          /\ \A hc \in HiddenCodes :
                Support(weights, call.inputCs, ColumnPos(i), hc)
                    = Support(weights, call.inputCs, ColumnPos(i), 0)
    /\ \E i \in 0..(numHiddenColumns - 1) : hiddenCs[i] > 0

\* C10: every entry of every CSDR the engines produce -- the hidden codes and
\* the reconstruction codes of each visible layer of the SparseCoder, the
\* action codes of the Actor's forward pass -- is one integer in [0, depth)
\* of its own grid, and each CSDR has one entry per column of that grid.
C10_CodesInRange ==
    /\ scPc # "none" =>
        /\ DOMAIN scHiddenCs = 0..(scNumHiddenColumns - 1)
        /\ \A i \in DOMAIN scHiddenCs : scHiddenCs[i] \in 0..(scHiddenSize.z - 1)
        /\ DOMAIN scReconCs = ScLayers
        /\ \A vli \in ScLayers :
            /\ DOMAIN scReconCs[vli] = 0..(scNumVisibleColumns(vli) - 1)
            /\ \A i \in DOMAIN scReconCs[vli] :
                    scReconCs[vli][i] \in 0..(scVisibleLayerDescs[vli].size.z - 1)
    /\ pc # "none" =>
        /\ DOMAIN hiddenCs = 0..(numHiddenColumns - 1)
        /\ \A i \in DOMAIN hiddenCs : hiddenCs[i] \in HiddenCodes

\* A SparseCoder that has learned and then completed an activation whose
\* hidden codes and whose reconstruction codes are not all zero.
C10_Witness ==
    /\ scPc = "idle"
    /\ scCalls > 1
    /\ scWeights \notin ScInitWeights
    /\ \E i \in DOMAIN scHiddenCs : scHiddenCs[i] # 0
    /\ \E vli \in ScLayers : \E i \in DOMAIN scReconCs[vli] : scReconCs[vli][i] # 0

\* The support hidden unit (h, hc) receives from the codes css (one CSDR per
\* visible layer): over every layer and every visible column inside the
\* receptive field of h, the weight between the unit and the column's code.
UnitSupport(W, h, hc, css) ==
    LET P == UNION {{<<vli, v>> : v \in {u \in Columns(scVisibleLayerDescs[vli].size) :
                                            h \in scCovering(vli, u)}} : vli \in ScLayers}
        w(vli, v) ==
            LET vld == scVisibleLayerDescs[vli]
                fc == project(h, scHiddenSize, vld.size)
                diam == 2 * vld.radius + 1
                off == (v.x - fc.x + vld.radius) + (v.y - fc.y + vld.radius) * diam
                code == css[vli][address2(v, vld.size.x)]
            IN  W[vli][address4([x |-> h.x, y |-> h.y, z |-> hc, w |-> off + code * diam * diam],
                                 scHiddenSize)]
    IN  SumOver([p \in P |-> w(p[1], p[2])], P)

\* The lowest code of hidden column h whose activation in act is maximal.
LowestMaxCode(act, h) ==
    LET idx(hc) == address3([x |-> h.x, y |-> h.y, z |-> hc], scHiddenSize)
        Codes == 0..(scHiddenSize.z - 1)
    IN  CHOOSE hc \in Codes :
            /\ \A o \in Codes : act[idx(o)] <= act[idx(hc)]
            /\ \A o \in Codes : o < hc => act[idx(o)] < act[idx(hc)]

\* C11: the forward pass of iteration 0 of activate stores the input support
\* of every hidden unit as its activation; the forward pass of a later
\* iteration adds (input support - support of the current reconstruction
\* codes) to the previous activation; either way the hidden code of each
\* column becomes the lowest code of maximal activation.
C11_ExplainingAwayActivation ==
    [][scPc = "forward" =>
        \A h \in Columns(scHiddenSize) :
            /\ \A hc \in 0..(scHiddenSize.z - 1) :
                LET k == address3([x |-> h.x, y |-> h.y, z |-> hc], scHiddenSize)
                IN  scHiddenActivations'[k] =
                        IF scIt = 0 THEN UnitSupport(scWeights, h, hc, scCall)
                        ELSE scHiddenActivations[k] + UnitSupport(scWeights, h, hc, scCall)
                             - UnitSupport(scWeights, h, hc, scReconCs)
            /\ scHiddenCs'[address2(h, scHiddenSize.x)] = LowestMaxCode(scHiddenActivations', h)]_vars

\* The forward pass of a later iteration has just run: some unit's input
\* support differs from its reconstruction support, and some column's codes
\* tie for the maximal activation.
C11_Witness ==
    /\ scPc = "backward" /\ scIt = 1 /\ scVli = 1
    /\ \E h \in Columns(scHiddenSize) : \E hc \in 0..(scHiddenSize.z - 1) :
            UnitSupport(scWeights, h, hc, scCall) # UnitSupport(scWeights, h, hc, scReconCs)
    /\ \E h \in Columns(scHiddenSize) :
            scHiddenActivations[address3([x |-> h.x, y |-> h.y, z |-> 0], scHiddenSize)]
            = scHiddenActivations[address3([x |-> h.x, y |-> h.y, z |-> 1], scHiddenSize)]

\* The hidden columns whose receptive field in layer vli contains visible
\* column v, found by testing every hidden column.
FieldContains(vli, v) ==
    {h \in Columns(scHiddenSize) :
        LET vld == scVisibleLayerDescs[vli]
            fc == project(h, scHiddenSize, vld.size)
        IN  /\ fc.x - vld.radius <= v.x /\ v.x <= fc.x + vld.radius
            /\ fc.y - vld.radius <= v.y /\ v.y <= fc.y + vld.radius}

\* The address of the weight between hidden unit (h, hc) and visible unit
\* (v, vc) of layer vli.
UnitWeight(vli, h, hc, v, vc) ==
    LET vld == scVisibleLayerDescs[vli]
        fc == project(h, scHiddenSize, vld.size)
        diam == 2 * vld.radius + 1
    IN  address4([x |-> h.x, y |-> h.y, z |-> hc,
                  w |-> (v.x - fc.x + vld.radius) + (v.y - fc.y + vld.radius) * diam
                        + vc * diam * diam], scHiddenSize)

\* The average, over the hidden columns covering visible column v, of the
\* weight between the column's current code in hCs and visible unit (v, vc).
CoveringAverage(W, hCs, vli, v, vc) ==
    LET H == FieldContains(vli, v)
    IN  SumOver([h \in H |->
                    W[vli][UnitWeight(vli, h, hCs[address2(h, scHiddenSize.x)], v, vc)]], H)
        \div Max2(1, Cardinality(H))

\* The visible units (v, vc) of layer vli whose covering weights include the
\* weight at address k.
UnitsAt(hCs, vli, k) ==
    {u \in Columns(scVisibleLayerDescs[vli].size) \X (0..(scVisibleLayerDescs[vli].size.z - 1)) :
        \E h \in FieldContains(vli, u[1]) :
            UnitWeight(vli, h, hCs[address2(h, scHiddenSize.x)], u[1], u[2]) = k}

\* C12: SparseCoder::learn adds, for every layer, visible column v and visible
\* code vc, alpha * (target - average) to the weight of every hidden column
\* covering v at its current code, target being 1 where vc is the input code
\* of v and 0 elsewhere; the average is the one backward maximises to pick the
\* reconstruction code; no other weight changes.
C12_LearnMovesCoveringWeights ==
    [][/\ (scPc = "idle" /\ scPc' = "idle" /\ scCalls' # scCalls) =>
            \A vli \in ScLayers : \A k \in DOMAIN scWeights[vli] :
                LET U == UnitsAt(scHiddenCs, vli, k)
                    delta(u) ==
                        Mul(scAlpha,
                            (IF u[2] = scCall'[vli][address2(u[1], scVisibleLayerDescs[vli].size.x)]
                             THEN Scale ELSE 0)
                            - CoveringAverage(scWeights, scHiddenCs, vli, u[1], u[2]))
                IN  /\ Cardinality(U) <= 1
                    /\ scWeights'[vli][k] = scWeights[vli][k] + SumOver([u \in U |-> delta(u)], U)
       /\ scPc = "backward" =>
            \A v \in Columns(scVisibleLayerDescs[scVli].size) :
                LET r == scReconCs'[scVli][address2(v, scVisibleLayerDescs[scVli].size.x)]
                    avg(vc) == CoveringAverage(scWeights, scHiddenCs, scVli, v, vc)
                IN  \A vc \in 0..(scVisibleLayerDescs[scVli].size.z - 1) :
                        /\ avg(vc) <= avg(r)
                        /\ vc < r => avg(vc) < avg(r)]_vars

\* A learn call has moved weights while some hidden code was not zero; some
\* visible column is covered by more than one hidden column.
C12_Witness ==
    /\ scPc = "idle"
    /\ scWeights \notin ScInitWeights
    /\ \E i \in DOMAIN scHiddenCs : scHiddenCs[i] # 0
    /\ \E vli \in ScLayers : \E v \in Columns(scVisibleLayerDescs[vli].size) :
            Cardinality(FieldContains(vli, v)) > 1

\* C13: SparseCoder::activate changes only the hidden codes, the hidden
\* activations and the reconstruction codes: every weight of every visible
\* layer and the caller's input CSDRs are the same after each of its steps
\* (the layer descriptors are fixed at construction).
C13_ActivateFrame ==
    [][(scPc \in {"forward", "backward"} \/ scPc' = "forward") =>
          /\ scWeights' = scWeights
          /\ scPc \in {"forward", "backward"} => scCall' = scCall
          /\ actorVars' = actorVars]_vars

\* Inside the second iteration of activate, with hidden codes and
\* reconstruction codes that are not all zero.
C13_Witness ==
    /\ scPc = "backward" /\ scIt = 1 /\ scVli = 2
    /\ \E i \in DOMAIN scHiddenCs : scHiddenCs[i] # 0
    /\ \E i \in DOMAIN scReconCs[1] : scReconCs[1][i] # 0
    /\ \E k \in DOMAIN scHiddenActivations : scHiddenActivations[k] # 0

\* The retained samples of a history are those of consecutive calls, oldest
\* at position 0, newest (the call numbered last) at position size - 1.
OldestFirst(hs, size, last) ==
    \A i \in 0..(size - 1) : hs[i].storedAt = last - (size - 1) + i

ReplayPhases ==
    /\ []((pc \in {"idle", "learn"} /\ stepCount >= Capacity) => historySize = Capacity)
    /\ [][/\ historySize >= 3 => historySize' >= 3
          /\ (pc = "add" /\ pc' = "learn") => historySize' >= 3]_vars

\* C15 (as claimed): the Actor moves from collecting (size < 3) to replaying
\* (size >= 3) and never back; after historyCapacity steps the history is
\* full for good and every later step with learnEnabled runs the replay loop.
C15_ReplayOnceFull ==
    /\ ReplayPhases
    /\ [][(pc = "add" /\ pc' # "crashed" /\ stepCount > Capacity /\ call.learnEnabled)
            => pc' = "learn"]_vars

\* C15 (amended): as claimed, for an Actor constructed with a history
\* capacity of at least 3; an Actor with a smaller capacity is full after
\* historyCapacity steps and never replays.
C15_ReplayOnceFullFromThree ==
    /\ ReplayPhases
    /\ [][(pc = "add" /\ pc' # "crashed" /\ stepCount > Capacity /\ call.learnEnabled)
            => (pc' = "learn" <=> Capacity >= 3)]_vars

\* A step with learnEnabled, later than the step that filled a history of
\* capacity 3, is in its replay loop.
C15_Witness ==
    /\ pc = "learn" /\ Capacity >= 3 /\ stepCount > Capacity /\ call.learnEnabled
    /\ historySize = Capacity

\* The orders in which the positions S of a pass can be dispatched.
Orders(S) ==
    {o \in [1..Cardinality(S) -> S] : \A i, j \in 1..Cardinality(S) : i # j => o[i] # o[j]}

\* The buffers left by the invocations Kernel(pos, buffers) run one after
\* the other in the given order, starting from the buffers c.
InOrder(Kernel(_, _), order, c) ==
    LET after[k \in 0..Len(order)] == IF k = 0 THEN c ELSE Kernel(order[k], after[k - 1])
    IN  after[Len(order)]

\* The Actor's buffers, as its kernels take them.
ActorState == [weights |-> weights, hiddenCs |-> hiddenCs, hiddenCounts |-> hiddenCounts]

\* The buffers SparseCoder::learn can leave from c when the learn kernel runs
\* layer after layer from layer vli on, in every order of a layer's columns.
RECURSIVE LearnedInOrders(_, _, _)
LearnedInOrders(c, visibleCs, vli) ==
    IF vli > Len(scVisibleLayerDescs) THEN {c}
    ELSE UNION {LearnedInOrders(InOrder(LAMBDA pos, d : scLearn(pos, d, visibleCs, vli), o, c),
                                visibleCs, vli + 1) :
                    o \in Orders(Columns(scVisibleLayerDescs[vli].size))}

RestoredScState ==
    LET e == restored.state
    IN  [weights |-> [vli \in 1..Len(e.layers) |-> e.layers[vli].weights],
         hiddenCs |-> e.hiddenCs,
         hiddenActivations |-> e.hiddenActivations,
         reconCs |-> [vli \in 1..Len(e.layers) |-> e.layers[vli].reconCs]]

\* A state of the generator, for the passes replayed below.
AnyRng == CHOOSE rng \in ScRngs : TRUE

\* The backward passes of one iteration of activate, from layer vli on.
RECURSIVE BackwardLayers(_, _)
BackwardLayers(c, vli) ==
    IF vli > Len(scVisibleLayerDescs) THEN c
    ELSE BackwardLayers(scBackwardPass(1, AnyRng, c, vli), vli + 1)

\* The buffers after SparseCoder::activate(cs, visibleCs), from iteration j on.
RECURSIVE Activated(_, _, _)
Activated(c, visibleCs, j) ==
    IF j >= explainIters THEN c
    ELSE Activated(BackwardLayers(scForwardPass(1, AnyRng, c, visibleCs, j = 0), 1), visibleCs, j + 1)

\* The SparseCoder read from the stream that was written equals the one that
\* wrote it.
ScRoundTrip ==
    LET e == restored.state
    IN  /\ e.consumed = Len(stream) /\ ~e.failed /\ ~e.thrown
        /\ e.hiddenSize = <<scHiddenSize.x, scHiddenSize.y, scHiddenSize.z>>
        /\ e.alpha = Mul(scAlpha, Scale)
        /\ e.explainIters = explainIters
        /\ e.hiddenCs = scHiddenCs
        /\ Len(e.layers) = Len(scVisibleLayerDescs)
        /\ \A vli \in ScLayers :
                LET vld == scVisibleLayerDescs[vli]
                    l == e.layers[vli]
                IN  /\ l.desc = <<vld.size.x, vld.size.y, vld.size.z, vld.radius>>
                    /\ l.visibleToHidden = <<Ratio(scHiddenSize.x, vld.size.x),
                                             Ratio(scHiddenSize.y, vld.size.y)>>
                    /\ l.hiddenToVisible = <<Ratio(vld.size.x, scHiddenSize.x),
                                             Ratio(vld.size.y, scHiddenSize.y)>>
                    /\ l.reverseRadii = <<reverseRadii(vli).x, reverseRadii(vli).y>>
                    /\ l.weights = scWeights[vli]
        /\ \A visibleCs \in ScInputs :
                Activated(RestoredScState, visibleCs, 0).hiddenCs
                    = Activated(ScState, visibleCs, 0).hiddenCs

\* The Actor read from the stream that was written equals the one that wrote
\* it.
ActorRoundTrip ==
    LET e == restored.state
    IN  /\ e.consumed = Len(stream) /\ ~e.failed /\ ~e.thrown
        /\ e.hiddenSize = <<hiddenSize.x, hiddenSize.y, hiddenSize.z>>
        /\ e.alpha = Mul(alpha, Scale) /\ e.gamma = Mul(gamma, Scale) /\ e.gap = Mul(gap, Scale)
        /\ e.historyIters = historyIters
        /\ e.hiddenCs = hiddenCs
        /\ e.hiddenCounts = hiddenCounts
        /\ Len(e.layers) = Len(visibleLayerDescs)
        /\ \A vli \in Layers :
                LET vld == visibleLayerDescs[vli]
                IN  /\ e.layers[vli].desc = <<vld.size.x, vld.size.y, vld.size.z, vld.radius>>
                    /\ e.layers[vli].weights = weights[vli]
        /\ \A args \in StepArgs :
                LET r == [weights |-> [vli \in 1..Len(e.layers) |-> e.layers[vli].weights],
                          hiddenCs |-> e.hiddenCs, hiddenCounts |-> e.hiddenCounts]
                IN  ForwardPass(1, r, args.inputCs).hiddenCs
                        = ForwardPass(1, ActorState, args.inputCs).hiddenCs

\* C17: a SparseCoder or an Actor read with readFromStream from the stream
\* writeToStream wrote consumes exactly the words written and has the hidden
\* extent, hyperparameters, hidden codes, visible layer descriptors and weight
\* buffers of the original, and activating both on the same input yields the
\* same output codes.
C17_StreamRoundTrip ==
    /\ restored.engine = "SparseCoder" /\ restored.in = stream => ScRoundTrip
    /\ restored.engine = "Actor" /\ restored.in = stream => ActorRoundTrip

C17_Witness ==
    /\ restored.engine = "SparseCoder"
    /\ restored.in = stream
    /\ scCalls >= 2
    /\ \E i \in DOMAIN scHiddenCs : scHiddenCs[i] # 0
    /\ \E i \in DOMAIN scReconCs[1] : scReconCs[1][i] # 0

\* An instance as its constructor leaves it: nothing read into it.
Untouched ==
    LET e == restored.state
    IN  IF restored.engine = "SparseCoder"
        THEN /\ e.hiddenSize = NewSparseCoder.hiddenSize
             /\ e.hiddenCs = NewSparseCoder.hiddenCs
             /\ e.layers = NewSparseCoder.layers
        ELSE /\ e.hiddenSize = NewActor.hiddenSize
             /\ e.hiddenCs = NewActor.hiddenCs
             /\ e.layers = NewActor.layers
             /\ e.historySamples = NewActor.historySamples

\* C18: readFromStream on a truncated or malformed stream raises an error
\* to its caller and leaves no zero-initialised or partially filled engine
\* behind.
C18_CorruptStreamRejected ==
    restored.engine # "none" /\ restored.in # stream =>
        restored.state.thrown /\ Untouched

\* The CSDRs a call may pass by the contract: one per visible layer
\* descriptor, each of the layer's extent, every code inside [0, depth).
WellFormed(visibleCs) ==
    /\ Len(visibleCs) = Len(scVisibleLayerDescs)
    /\ \A vli \in 1..Len(visibleCs) :
            /\ DOMAIN visibleCs[vli] = 0..(scNumVisibleColumns(vli) - 1)
            /\ \A i \in DOMAIN visibleCs[vli] :
                    visibleCs[vli][i] \in 0..(scVisibleLayerDescs[vli].size.z - 1)

\* C19: a call of activate or learn with a wrong number of CSDRs, a CSDR of a
\* wrong length or a code outside [0, depth) is rejected at once: the call
\* ends in an error and the engine has computed nothing with the input.
C19_MalformedInputRejected ==
    [][scPc = "idle" /\ scCalls' = scCalls + 1 /\ ~WellFormed(scCall')
            => scPc' = "rejected" /\ ScState' = ScState]_vars

\* max(1, n), written out.
FlooredAtOne(n) == IF n < 1 THEN 1 ELSE n

\* The visible columns of layer vli that lie in no hidden column's field.
Uncovered(vli) == {v \in Columns(scVisibleLayerDescs[vli].size) : FieldContains(vli, v) = {}}

\* C20: every normalisation divisor is max(1, count) -- the covering-column
\* count of backward and learn of the SparseCoder, the hidden count of learn
\* of the Actor, the field count of forward and learn of the Monte-Carlo
\* Actor -- so a visible column that no field covers is divided by 1: backward
\* gives it reconstruction code 0.
C20_DivisorsFlooredAtOne ==
    /\ [](/\ scPc # "none" =>
                \A vli \in ScLayers : \A v \in Columns(scVisibleLayerDescs[vli].size) :
                    scNormaliser(vli, v) = FlooredAtOne(Cardinality(FieldContains(vli, v)))
          /\ pc # "none" =>
                \A i \in DOMAIN hiddenCounts :
                    learnCount(hiddenCounts, i) = FlooredAtOne(hiddenCounts[i])
          /\ mcPc # "none" =>
                \A pos \in Columns(mcHiddenSize) :
                    mcNormaliser(pos) = FlooredAtOne(mcCount(pos, 1)))
    /\ [][scPc = "backward" =>
            \A v \in Uncovered(scVli) :
                scReconCs'[scVli][address2(v, scVisibleLayerDescs[scVli].size.x)] = 0]_vars

C20_Witness ==
    /\ scPc = "idle"
    /\ scCalls >= 2
    /\ \E vli \in ScLayers : \E v \in Uncovered(vli) :
            LET i == address2(v, scVisibleLayerDescs[vli].size.x)
            IN  /\ scCall[vli][i] = 1
                /\ scReconCs[vli][i] = 0
                /\ \E j \in DOMAIN scReconCs[vli] : scReconCs[vli][j] # 0

\* The buffers SparseCoder::learn leaves from c when every learn kernel is
\* handed the generator in state g, layer after layer from layer vli on.
RECURSIVE LearnedWithRng(_, _, _, _)
LearnedWithRng(g, c, visibleCs, vli) ==
    IF vli > Len(scVisibleLayerDescs) THEN c
    ELSE LearnedWithRng(g,
                        InOrder(LAMBDA pos, d : scLearnKernel(pos, g, d, visibleCs, vli),
                                ColumnSeq(scVisibleLayerDescs[vli].size), c),
                        visibleCs, vli + 1)

\* C21: activate and learn of the SparseCoder are functions of the weights
\* and the input CSDRs alone: whatever state the random generator handed to
\* the kernels is in, every forward pass, backward pass and learn call
\* leaves the same hidden codes, activations, reconstruction codes and
\* weights.
C21_KernelsIgnoreRng ==
    [][\A g \in ScRngs :
        /\ scPc = "forward" =>
                ScState' = InOrder(LAMBDA pos, c : scForwardKernel(pos, g, c, scCall, scIt = 0),
                                   ColumnSeq(scHiddenSize), ScState)
        /\ scPc = "backward" =>
                ScState' = InOrder(LAMBDA pos, c : scBackwardKernel(pos, g, c, scVli),
                                   ColumnSeq(scVisibleLayerDescs[scVli].size), ScState)
        /\ (scPc = "idle" /\ scPc' = "idle" /\ scCalls' # scCalls) =>
                ScState' = LearnedWithRng(g, ScState, scCall', 1)]_vars

\* A SparseCoder has activated and learned, its kernels handed the
\* generator in either state: a hidden code is not zero and weights moved.
C21_Witness ==
    /\ scPc = "idle" /\ scCalls >= 3
    /\ scWeights \notin ScInitWeights
    /\ \E i \in DOMAIN scHiddenCs : scHiddenCs[i] # 0

Apart(a, b) == IF a >= b THEN a - b ELSE b - a

\* One of the two extents is an exact integer multiple of the other.
Multiple(a, b) == a % b = 0 \/ b % a = 0

\* C23 as stated: when on each axis one extent is an exact multiple of the
\* other, a corner column of the hidden grid projected to the visible grid
\* and back lands within 1 cell of the corner on each axis.
C23_CornerRoundTripWithinOne ==
    (/\ probe.op = "project"
     /\ Multiple(geom.hiddenSize.x, geom.vld.size.x)
     /\ Multiple(geom.hiddenSize.y, geom.vld.size.y))
    => /\ Apart(probe.back.x, probe.pos.x) <= 1
       /\ Apart(probe.back.y, probe.pos.y) <= 1

\* The round trip of a corner along one axis of hidden extent h and visible
\* extent v: it returns to the corner when v is a multiple of h, and lands
\* within floor(k / 2) cells of it when h = k * v.
RoundTripAxis(h, v, pos, back) ==
    /\ v % h = 0 => back = pos
    /\ h % v = 0 => Apart(back, pos) <= (h \div v) \div 2

\* C23, amended: a corner column of the hidden grid projected to the
\* visible grid and back returns to the corner on an axis whose visible
\* extent is a multiple of the hidden extent, and lands within floor(k / 2)
\* cells of it on an axis whose hidden extent is k times the visible extent:
\* within 1 cell only for k <= 3.
C23_CornerRoundTripWithinHalfRatio ==
    probe.op = "project" =>
        /\ RoundTripAxis(geom.hiddenSize.x, geom.vld.size.x, probe.pos.x, probe.back.x)
        /\ RoundTripAxis(geom.hiddenSize.y, geom.vld.size.y, probe.pos.y, probe.back.y)

\* The corner 0 of a hidden grid four times as wide as the visible grid has
\* come back 2 cells away.
C23_Witness ==
    /\ probe.op = "project"
    /\ geom.hiddenSize.x = 4 * geom.vld.size.x
    /\ probe.pos.x = 0 /\ probe.back.x = 2

\* C24: for every visible position p of a layer, the hidden columns that
\* backward (and learn) sum over are exactly the hidden columns of the grid
\* whose receptive field contains p: the search window of half-width
\* _reverseRadii around project(p, visibleToHidden) misses none of them.
C24_WindowMissesNoCoveringColumn ==
    probe.op = "backward" =>
        probe.visited = {h \in Columns(geom.hiddenSize) :
                            fieldHolds(geom.hiddenSize, geom.vld, h, probe.pos)}

\* The reconstruction codes of layer vli that backward invocations at every
\* visible column of the layer compute from the buffers c.
Reconstructed(c, vli) ==
    InOrder(LAMBDA pos, d : scBackward(pos, d, vli),
            ColumnSeq(scVisibleLayerDescs[vli].size), c).reconCs[vli]

\* C25: activate performs exactly explainIters rounds; a round is one
\* forward pass over all hidden columns followed by one backward pass for
\* every visible layer, in layer order; the forward pass is complete before
\* the first backward invocation of its round; and the reconstruction codes
\* the forward pass of a later round reads are those the backward passes of
\* the round before wrote for every visible column of every layer.
C25_ActivateRounds ==
    /\ [](scPc = "forward" /\ scIt > 0 =>
            \A vli \in ScLayers : scReconCs[vli] = Reconstructed(ScState, vli))
    /\ [][/\ (scPc = "idle" /\ scPc' \notin {"idle", "saved"}) =>
                scPc' = "forward" /\ scIt' = 0
          /\ scPc = "forward" =>
                /\ \A rng \in ScRngs : ScState' = scForwardPass(1, rng, ScState, scCall, scIt = 0)
                /\ scPc' = "backward" /\ scVli' = 1 /\ scIt' = scIt
          /\ scPc = "backward" =>
                /\ \A rng \in ScRngs : ScState' = scBackwardPass(1, rng, ScState, scVli)
                /\ scHiddenCs' = scHiddenCs
                /\ IF scVli < Len(scVisibleLayerDescs)
                   THEN scPc' = "backward" /\ scVli' = scVli + 1 /\ scIt' = scIt
                   ELSE /\ scIt' = scIt + 1
                        /\ scPc' = IF scIt + 1 < explainIters THEN "forward" ELSE "idle"
          /\ (scPc \notin {"idle", "none"} /\ scPc' = "idle") => scIt' = explainIters]_vars

\* The second round of an activate call is about to run its forward pass on
\* reconstruction codes, not all zero, written by the first round.
C25_Witness ==
    /\ scPc = "forward" /\ scIt = 1
    /\ \E vli \in ScLayers : \E i \in DOMAIN scReconCs[vli] : scReconCs[vli][i] # 0
    /\ \E i \in DOMAIN scHiddenCs : scHiddenCs[i] # 0

WeightTuple(hs, vld, i) ==
    LET dxy == hs.x * hs.y
        dxyz == dxy * hs.z
        diam2 == (vld.radius * 2 + 1) * (vld.radius * 2 + 1)
    IN  [h |-> [x |-> (i % dxy) % hs.x, y |-> (i % dxy) \div hs.x],
         hc |-> (i % dxyz) \div dxy,
         offset |-> (i \div dxyz) % diam2,
         vc |-> (i \div dxyz) \div diam2]

\* C27: for every weight access of the dense store, the relative field
\* offset lies in [0, diam * diam), the flat index lies in [0, hiddenColumns
\* * hiddenDepth * diam * diam * visibleDepth), the index determines the
\* tuple (hidden column, hidden code, relative offset, visible code) it was
\* computed from, so distinct tuples have distinct indices, and backward
\* (and learn) pass the containment check and address the same weight as
\* forward for the same tuple.
C27_WeightAddressing ==
    probe.op = "access" =>
        LET hs == geom.hiddenSize
            vld == geom.vld
            diam2 == (vld.radius * 2 + 1) * (vld.radius * 2 + 1)
        IN  /\ probe.offset >= 0 /\ probe.offset < diam2
            /\ probe.forward >= 0
            /\ probe.forward < hs.x * hs.y * hs.z * diam2 * vld.size.z
            /\ WeightTuple(hs, vld, probe.forward)
                    = [h |-> probe.h, hc |-> probe.hc, offset |-> probe.offset, vc |-> probe.vc]
            /\ probe.held
            /\ probe.backward = probe.forward

\* A weight of a hidden column whose field reaches below the grid has been
\* addressed for a visible position of the second row and a code above 0.
C27_Witness ==
    /\ probe.op = "access"
    /\ fieldLowerBoundOf(geom.hiddenSize, geom.vld, probe.h).x < 0
    /\ geom.vld.radius = 2
    /\ probe.v.y = 1 /\ probe.v.x > 0 /\ probe.vc = 1 /\ probe.hc = 1

\* C28: SparseCoder::learn leaves every weight attached to a hidden code
\* other than the active code of its hidden column as it was, leaves the
\* hidden codes, hidden activations and reconstruction codes as they were,
\* and with alpha = 0 leaves every weight as it was.
C28_LearnFrame ==
    [][(scPc = "idle" /\ scPc' = "idle" /\ scCalls' # scCalls) =>
            /\ scHiddenCs' = scHiddenCs
            /\ scHiddenActivations' = scHiddenActivations
            /\ scReconCs' = scReconCs
            /\ \A vli \in ScLayers : \A i \in DOMAIN scWeights[vli] :
                    LET t == WeightTuple(scHiddenSize, scVisibleLayerDescs[vli], i)
                    IN  t.hc # scHiddenCs[address2(t.h, scHiddenSize.x)]
                            => scWeights'[vli][i] = scWeights[vli][i]
            /\ scAlpha[1] = 0 => scWeights' = scWeights]_vars

\* learn has moved weights of a SparseCoder with alpha > 0 one of whose
\* hidden columns holds code 1: a weight of that column's code 0 still has
\* an initial value.
C28_Witness ==
    /\ scPc = "idle" /\ scAlpha[1] > 0
    /\ scWeights \notin ScInitWeights
    /\ \E h \in Columns(scHiddenSize) :
            /\ scHiddenCs[address2(h, scHiddenSize.x)] = 1
            /\ \E i \in DOMAIN scWeights[1] :
                    /\ WeightTuple(scHiddenSize, scVisibleLayerDescs[1], i).h = h
                    /\ WeightTuple(scHiddenSize, scVisibleLayerDescs[1], i).hc = 0
                    /\ \E W \in ScInitWeights : scWeights[1][i] = W[1][i]

\* Buffers an earlier call can have left: all zero, or every code 1 with
\* every activation at three units.
LeftOvers ==
    { [hiddenCs |-> [i \in DOMAIN scHiddenCs |-> v],
       hiddenActivations |-> [i \in DOMAIN scHiddenActivations |-> 3 * v * Scale],
       reconCs |-> [vli \in ScLayers |-> [i \in DOMAIN scReconCs[vli] |-> v]]] : v \in {0, 1} }

\* C29: the hidden codes and reconstruction codes a call of activate leaves
\* depend only on the weights and the input CSDRs: started from any hidden
\* codes, activations and reconstruction codes, the call leaves the same
\* ones; in particular a second call on the same input leaves them again.
C29_ActivateForgetsEarlierCalls ==
    [][(scPc = "backward" /\ scPc' = "idle") =>
            /\ \A l \in LeftOvers :
                    LET r == Activated([weights |-> scWeights, hiddenCs |-> l.hiddenCs,
                                        hiddenActivations |-> l.hiddenActivations,
                                        reconCs |-> l.reconCs], scCall, 0)
                    IN  r.hiddenCs = scHiddenCs' /\ r.reconCs = scReconCs'
            /\ Activated(ScState', scCall, 0).hiddenCs = scHiddenCs'
            /\ Activated(ScState', scCall, 0).reconCs = scReconCs']_vars

\* A third or later call, an activate, is in the last backward pass of its
\* last round, with hidden codes and reconstruction codes that are not all
\* zero.
C29_Witness ==
    /\ scPc = "backward" /\ scIt = explainIters - 1 /\ scVli = Len(scVisibleLayerDescs)
    /\ scCalls >= 3
    /\ \E i \in DOMAIN scHiddenCs : scHiddenCs[i] # 0
    /\ \E i \in DOMAIN scReconCs[1] : scReconCs[1][i] # 0

\* C30: in every replay update and at every hidden column, the maximum
\* under sPrev's inputs is at least the support of targetC under them, the
\* maximum under s's inputs is at least the support of targetC under them,
\* the PAL error does not exceed the TD error, and the two are equal when
\* targetC attains the column maximum under s's inputs or under sPrev's.
C30_PALErrorAtMostTDError ==
    \A k \in 1..Len(learnLog) : \A i \in 0..(numHiddenColumns - 1) :
        LET d == learnLog[k].d[i]
        IN  /\ d.maxActivationPrev >= d.qActionPrev
            /\ d.maxActivation >= d.nextQActionPrev
            /\ d.dPAL <= d.dQ
            /\ (d.maxActivationPrev = d.qActionPrev \/ d.maxActivation = d.nextQActionPrev)
                    => d.dPAL = d.dQ

\* One replay update had a PAL error strictly below the TD error at some
\* hidden column, and one had targetC at the maximum under s's inputs only,
\* with the two errors equal.
C30_Witness ==
    /\ \E k \in 1..Len(learnLog) : \E i \in 0..(numHiddenColumns - 1) :
            learnLog[k].d[i].dPAL < learnLog[k].d[i].dQ
    /\ \E k \in 1..Len(learnLog) : \E i \in 0..(numHiddenColumns - 1) :
            LET d == learnLog[k].d[i]
            IN  /\ d.maxActivation = d.nextQActionPrev
                /\ d.maxActivationPrev > d.qActionPrev
                /\ d.dPAL = d.dQ

====
